---------------------------- MODULE Spec2Model ----------------------------
(***************************************************************************)
(* A state-machine model of tiny-adk: the Session event log and the        *)
(* SessionService store (tiny_adk/session.py), the Runner's Reason-Act     *)
(* loop (tiny_adk/runner.py), SimpleFlow's streamed Reason-Act loop        *)
(* (tiny_adk/flows/simple_flow.py) and the LoopAgent orchestrator          *)
(* (tiny_adk/agents/loop_agent.py).                                        *)
(*                                                                         *)
(* Each subsystem has its own specification over its own variables:        *)
(*   SpecStore   SessionService and Session operations                     *)
(*   SpecRunner  one Runner driving turns on one Session                   *)
(*   SpecFlow    one SimpleFlow turn (streamed, asynchronous)              *)
(*   SpecLoop    one LoopAgent run over its sub-agents                     *)
(***************************************************************************)
EXTENDS Integers, Sequences, FiniteSets, TLC

VARIABLES
    \* --- SessionService (session.py) ---
    sessions,     \* SessionService._sessions: key -> Session
    owner,        \* history: the application on whose behalf each stored session was created
    lastOp,       \* history: the latest service call and what it returned
    \* --- Runner (runner.py) ---
    rpc,          \* where the Runner's generator stands
    rcfg,         \* the call's inputs: agent, llm_client, the session's origin
    log,          \* session.events of the Session handed to the Runner
    messages,     \* the message list of the latest _build_messages
    rpending,     \* tool calls of the current response not yet executed
    rdeltas,      \* content chunks the current streamed call has still to deliver
    handed,       \* the Event the caller has just received (NoEvent: none in this step)
    out,          \* history: every Event handed to the caller in this turn
    llmCalls,     \* history: model calls made in this turn
    response,     \* the model response being handled
    produced,     \* history: Event objects constructed so far (their identity)
    \* --- SimpleFlow (flows/simple_flow.py) ---
    fpc,          \* where the flow's generator stands
    fmax,         \* self.max_iterations, the agent's max_iterations
    iteration,    \* the iteration argument of the current _reason_act_loop_stream_async
    fresponse,    \* final_response of the current iteration
    fpending,     \* function calls of final_response not yet executed
    fdeltas,      \* partial responses the current model call has still to deliver
    fout,         \* history: every Event the flow has yielded in this turn
    fmodelCalls,  \* history: calls of llm.generate_stream_async in this turn
    fraised,      \* history: the tools that raised, in order
    \* --- LoopAgent (agents/loop_agent.py) ---
    lpc,          \* where the LoopAgent's generator stands
    lcfg,         \* the LoopAgent's fields: max_iterations, sub_agents
    loop_idx,     \* loop_idx
    should_exit,  \* should_exit
    lsub,         \* position of the for loop in sub_agents
    lout,         \* history: every Event the LoopAgent has yielded
    lstarts,      \* history: the sub-agent runs started, as <<loop_idx, position>>
    \* --- SequentialAgent (agents/sequential_agent.py) ---
    qpc,          \* where the SequentialAgent's generator stands
    qcfg,         \* the SequentialAgent's fields: sub_agents
    qi,           \* i of enumerate(self.sub_agents)
    qyielded,     \* Events the running sub-agent has yielded so far
    qout,         \* history: every Event the SequentialAgent has yielded
    qstarts,      \* history: positions of the sub-agents whose run was started
    qends,        \* history: positions of the sub-agents whose run was exhausted
    \* --- agent trees (agents/base_agent.py, agents/llm_agent.py) ---
    agents,       \* every agent object made so far, in order of construction
    tasked,       \* the last get_transferable_agents() call and what it returned
    \* --- OpenAILlm.generate (models/openai_llm.py) ---
    gpc,          \* where the generate() generator stands
    gcfg,         \* the call: stream, show_thinking, and the text the endpoint produces
    gpos,         \* characters of the text the stream has delivered so far
    gfilter,      \* the ThinkingFilter of _process_stream
    full_content, \* _process_stream's full_content
    tool_calls_data, \* _process_stream's tool_calls_data (names)
    gvisible,     \* history: what process_delta returned and finalize left over, joined
    gout,         \* history: the responses yielded, consecutive fragments joined into one
    gcontacts,    \* history: calls of client.chat.completions.create
    \* --- InMemoryService (memory/in_memory_service.py) ---
    memories,     \* self._memories: user_key -> the dict's entries in insertion order
    mlast,        \* the last add, get or clear call of another thread and what it returned
    spc,          \* where the searching thread stands
    scall,        \* the arguments of its search call
    sdict,        \* user_memories: the dict the search took under the lock
    di_used,      \* the size the dict iterator expects
    spos,         \* entries the for loop has visited
    matched,      \* the search's matched list
    sresult,      \* the SearchResult returned
    sseen,        \* history: entries stored under the search's (app_name, user_id) during the call
    squiet,       \* history: the store has not changed since the search began
    sinterleaved, \* calls of other threads while the search was iterating
    \* --- MemoryManager (memory/memory_manager.py) ---
    short_term,   \* self.short_term: the short-term service's _memories
    long_term,    \* self.long_term: the long-term service's _memories
    same_service, \* self.long_term is self.short_term
    config,       \* self.config
    mgr_call,     \* the last call of the manager and its arguments
    mgr_result,   \* the SearchResult the last search returned
    \* --- memory tools and the flow's tool declarations (memory/memory_tools.py, flows/base_flow.py) ---
    agent_tools,   \* agent.tools: the names of the agent's tools, in order
    request_tools, \* request.tools of the last request built: the names declared
    mt_store,      \* the _memories of the memory service the contexts refer to
    mt_call,       \* the last call of a memory tool or of the tool dispatch, and its result
    \* --- POST /api/chat/stream (web/api.py) ---
    sse_pc,       \* where event_generator stands: "idle", "streaming", "closed"
    sse_events,   \* the Events runner.run_async has yielded in this response
    sse_raised,   \* an exception was raised inside the try block
    sse_lines,    \* the lines the response has sent
    \* --- OpenAILlm._parse_response on a reply with tool-call markup (models/openai_llm.py) ---
    mx_pc,        \* "idle", "reply": the endpoint has answered, "parsed": _parse_response has returned
    mx_reply,     \* the reply: the pieces of message.content and message.tool_calls
    mx_response,  \* the LlmResponse returned
    \* --- Session.events of a session whose history is read (session.py) ---
    hlog,         \* session.events
    \* --- SimpleFlow running a turn on a Session (flows/simple_flow.py) ---
    sf_mode,      \* the method called: run, run_async, run_stream, run_stream_async
    sf_pc,        \* idle, loop, stream, tools, execute, done
    sf_max,       \* self.max_iterations
    sf_iteration, \* the iteration argument of the loop
    sf_pending,   \* the function calls of the response still to execute
    sf_deltas,    \* partial responses the model stream still gives
    sf_events,    \* session.events
    sf_yielded,   \* the Events the generator has yielded
    sf_taken,     \* how many yielded Events the caller has taken
    sf_writer,    \* who made the last append to session.events
    \* --- BaseAgent.run_async, the template method (agents/base_agent.py) ---
    hook_pc,      \* idle, before, impl, after, done, raised
    hook_cfg,     \* what the callbacks of the agent are and give
    hook_out,     \* the Events run_async has yielded
    hook_impl,    \* whether _run_async_impl was entered
    hook_after,   \* how often the after callback was called
    \* --- a turn in an agent tree (agents/llm_agent.py, sequential_agent.py) ---
    turn_pc,      \* idle, running, done
    turn_cfg,     \* the tree, the transfer tools' configuration, max_iterations
    pending_name, \* target_agent of the most recent AGENT_TRANSFER Event of session.events
    frames,       \* the run_async generators that are alive, the innermost last
    handoffs,     \* the hand-offs of the turn: <<from, to, how>>
    authored,     \* <<author, sequential_index>> of the Events the turn yielded
    called,       \* the agents that made a model call in the turn
    model_calls   \* how many model calls the turn has made

\* ------------------------------------------------------------------ bounds

MaxEvents == 2          \* events appended to one stored session
MaxModelCalls == 2      \* model calls explored in one Runner turn
MaxIter == 1            \* largest max_iterations of the agent a Runner is given
MaxFlowIter == 2        \* largest max_iterations of the agent a flow runs
MaxLoopIter == 2        \* largest max_iterations of a LoopAgent
MaxSubAgents == 2       \* most sub-agents of a LoopAgent
MaxPasses == 2          \* passes explored of a LoopAgent no ceiling stops
MaxLoopEvents == 3      \* Events explored in one LoopAgent run
MaxSeqSubAgents == 3    \* most sub-agents of a SequentialAgent
MaxSeqEvents == 2       \* Events explored of one sub-agent run of a SequentialAgent
MaxPieces == 3          \* pieces the texts of the model endpoint are made of
MaxInterleaved == 1     \* calls of other threads explored while one search is iterating
MaxSseEvents == 3       \* Events explored in one /api/chat/stream response
MaxMarkupPieces == 3    \* pieces the content of a reply with tool-call markup is made of
MaxLogLen == 4          \* Events of a log whose conversation history is read
MaxTurnLog == 2         \* most Events of a log on which a further Runner turn is explored
MaxHookEvents == 3          \* Events an agent's own logic yields in a run
MaxAgentIter == 2       \* largest max_iterations of the LLM agents of a tree
MaxHandoffs == 4        \* distinct hand-offs explored in one turn
MaxTurnCalls == 4       \* model calls explored in one turn
MaxNesting == 6         \* generators alive at once when a SequentialAgent starts a sub-agent

\* ------------------------------------------------------------------ values

None == "None"
NoEvent == [event_type |-> "none"]

Apps == {"app1", "app2"}
UserIds == {"u1", "u2"}
SessionIds == {"s1"}

\* agent.tools of the agent a Runner is given, and the messages of its user
AgentTools == {"get_weather"}
UserMessages == {"hello", "weather"}
\* the tool names of the tool_calls lists a model may answer with
ToolCallNameLists ==
    { <<"get_weather">>, <<"web_search">>,
      <<"get_weather", "get_weather">>, <<"web_search", "get_weather">> }
\* how many content chunks a streamed model call may deliver
DeltaCounts == {0, 1}
\* the function names of the function_calls lists a flow's model may answer with
FlowCallNameLists ==
    { <<"get_weather">>, <<"get_weather", "get_weather">>, <<"web_search", "get_weather">>,
      <<"escalate">>, <<"transfer_to_agent", "get_weather">> }

\* EventActions() and Event.metadata as the dataclass defaults leave them
NoActions == [transfer_to_agent |-> None, escalate |-> FALSE]
NoMetadata == [escalate |-> FALSE, transfer_to_agent |-> None]

\* Event(event_type=t, content=c): partial, actions and metadata at their
\* dataclass defaults; serial stands for the object's identity.
Event(t, c, n) ==
    [event_type |-> t, content |-> c, partial |-> FALSE,
     metadata |-> NoMetadata, actions |-> NoActions, serial |-> n]

Last(s) == s[Len(s)]

Range(f) == { f[i] : i \in DOMAIN f }

IsPrefix(s, t) == Len(s) <= Len(t) /\ SubSeq(t, 1, Len(s)) = s

\* --------------------------------------------- Session.get_conversation_history

AssistantToolCalls(pending_tool_calls) ==
    [role |-> "assistant", content |-> None, tool_calls |-> pending_tool_calls]

HasToolCalls(m) == "tool_calls" \in DOMAIN m

RECURSIVE HistoryFrom(_, _, _)
HistoryFrom(events, history, pending_tool_calls) ==
    IF events = <<>>
    THEN IF pending_tool_calls # <<>>
         THEN Append(history, AssistantToolCalls(pending_tool_calls))
         ELSE history
    ELSE LET event == Head(events)
             rest == Tail(events)
         IN CASE event.event_type = "user_message" ->
                   HistoryFrom(rest,
                       Append(history, [role |-> "user", content |-> event.content.text]),
                       pending_tool_calls)
              [] event.event_type = "model_response" ->
                   IF event.content.text # None /\ event.content.text # ""
                   THEN HistoryFrom(rest,
                            Append(history, [role |-> "assistant", content |-> event.content.text]),
                            pending_tool_calls)
                   ELSE HistoryFrom(rest, history, pending_tool_calls)
              [] event.event_type = "tool_call" ->
                   HistoryFrom(rest, history,
                       Append(pending_tool_calls,
                              [id |-> event.content.id, type |-> "function",
                               function |-> [name |-> event.content.name]]))
              [] event.event_type = "tool_response" ->
                   LET flushed == IF pending_tool_calls # <<>>
                                  THEN Append(history, AssistantToolCalls(pending_tool_calls))
                                  ELSE history
                   IN HistoryFrom(rest,
                          Append(flushed, [role |-> "tool", content |-> event.content.result,
                                           tool_call_id |-> event.content.call_id]),
                          <<>>)
              [] OTHER -> HistoryFrom(rest, history, pending_tool_calls)

get_conversation_history(events) == HistoryFrom(events, <<>>, <<>>)

\* ------------------------------------------------------------ SessionService

\* key = (user_id, session_id): the application is no part of it
SessionKey(app_name, user_id, session_id) == <<user_id, session_id>>

NewSession(user_id, session_id) ==
    [user_id |-> user_id, session_id |-> session_id, events |-> <<>>]

Put(store, key, session) ==
    [k \in DOMAIN store \cup {key} |-> IF k = key THEN session ELSE store[k]]

Remove(store, key) == [k \in DOMAIN store \ {key} |-> store[k]]

\* The events a caller may append to a stored session
StoreEvents ==
    { Event("user_message", [text |-> "hello"], 1),
      Event("model_response", [text |-> "answer"], 2) }

storeVars == <<sessions, owner, lastOp>>
runnerVars == <<rpc, rcfg, log, messages, rpending, rdeltas, handed, out,
                llmCalls, response, produced>>
flowVars == <<fpc, fmax, iteration, fresponse, fpending, fdeltas, fout,
              fmodelCalls, fraised>>
loopVars == <<lpc, lcfg, loop_idx, should_exit, lsub, lout, lstarts>>

StoreInit ==
    /\ sessions = [k \in {} |-> NewSession(None, None)]
    /\ owner = [k \in {} |-> None]
    /\ lastOp = [op |-> "none"]

CreateAt(app_name, user_id, session_id) ==
    LET key == SessionKey(app_name, user_id, session_id)
    IN IF key \in DOMAIN sessions
       THEN /\ lastOp' = [op |-> "create_session", app_name |-> app_name, key |-> key,
                          result |-> "ValueError"]
            /\ UNCHANGED <<sessions, owner>>
       ELSE /\ sessions' = Put(sessions, key, NewSession(user_id, session_id))
            /\ owner' = Put(owner, key, app_name)
            /\ lastOp' = [op |-> "create_session", app_name |-> app_name, key |-> key,
                          result |-> "ok"]

\* create_session(user_id, session_id): session_id given
CreateSession(app_name, user_id, session_id) ==
    CreateAt(app_name, user_id, session_id)

\* create_session(user_id): session_id omitted, str(uuid4()) takes its place
\* (a fresh id: one no stored session carries)
CreateSessionGenerated(app_name, user_id) ==
    \E g \in SessionIds :
        /\ \A k \in DOMAIN sessions : k[2] # g
        /\ CreateAt(app_name, user_id, g)

GetSession(user_id, session_id) ==
    LET key == <<user_id, session_id>>
    IN /\ lastOp' = [op |-> "get_session", key |-> key,
                     result |-> IF key \in DOMAIN sessions THEN "session" ELSE None]
       /\ UNCHANGED <<sessions, owner>>

\* a Session.add_event that puts the Event in front
add_event_in_front(events, event) == <<event>> \o events

\* Session.add_event, as append_event(session, event) calls it
add_event(events, event) == Append(events, event)

AppendEvent(key, event) ==
    /\ key \in DOMAIN sessions
    /\ Len(sessions[key].events) < MaxEvents
    /\ sessions' = [sessions EXCEPT ![key].events = add_event(@, event)]
    /\ lastOp' = [op |-> "append_event", key |-> key, result |-> "ok"]
    /\ UNCHANGED owner

\* Session.clear
Clear(key) ==
    /\ key \in DOMAIN sessions
    /\ sessions' = [sessions EXCEPT ![key].events = <<>>]
    /\ lastOp' = [op |-> "clear", key |-> key, result |-> "ok"]
    /\ UNCHANGED owner

DeleteSession(user_id, session_id) ==
    LET key == <<user_id, session_id>>
    IN IF key \in DOMAIN sessions
       THEN /\ sessions' = Remove(sessions, key)
            /\ owner' = Remove(owner, key)
            /\ lastOp' = [op |-> "delete_session", key |-> key, result |-> "True"]
       ELSE /\ lastOp' = [op |-> "delete_session", key |-> key, result |-> "False"]
            /\ UNCHANGED <<sessions, owner>>



\* -------------------------------------------------------------------- Runner

NoResponse == [content |-> None, tool_calls |-> <<>>]

\* ids of the tool calls of one model response, by position
CallId(i) == <<"call_1", "call_2", "call_3", "call_4">>[i]

ToolCall(i, name) == [id |-> CallId(i), name |-> name]

\* the tool_calls lists a model may answer with
ToolCallLists ==
    { [i \in 1..Len(names) |-> ToolCall(i, names[i])] : names \in ToolCallNameLists }

\* what _call_llm and _call_llm_stream may return: text (a failed call is text
\* too), or tool calls
LlmResponses ==
    { [content |-> "text", tool_calls |-> <<>>] } \cup
    { [content |-> "", tool_calls |-> tcs] : tcs \in ToolCallLists }

\* _mock_llm_response: decided by the last message alone
MockToolFor(text) ==
    CASE text = "weather" -> "get_weather"
      [] text = "search" -> "web_search"
      [] OTHER -> None

MockCallId(name) ==
    IF name = "get_weather" THEN "call_weather_123" ELSE "call_search_123"

mock_llm_response(msgs) ==
    LET last_message == Last(msgs)
    IN IF last_message.role = "tool"
       THEN [content |-> "text", tool_calls |-> <<>>]
       ELSE IF /\ last_message.role = "user"
               /\ AgentTools # {}
               /\ MockToolFor(last_message.content) # None
            THEN [content |-> None,
                  tool_calls |-> << [id |-> MockCallId(MockToolFor(last_message.content)),
                                     name |-> MockToolFor(last_message.content)] >>]
            ELSE [content |-> "text", tool_calls |-> <<>>]

build_messages(events) ==
    << [role |-> "system", content |-> "prompt"] >> \o get_conversation_history(events)

find_tool(tool_name) == IF tool_name \in AgentTools THEN tool_name ELSE None

\* the calls explored: the Session given is one a SessionService created or one
\* the caller constructed itself; the Runner has an llm_client or none
RunnerConfigs ==
    [registered : BOOLEAN, llm_client : {None, "client"},
     max_iterations : 1..MaxIter, stream : {FALSE}]

RunnerAt(cfg) ==
    /\ rpc = "idle"
    /\ rcfg = cfg
    /\ log = <<>>
    /\ messages = <<>>
    /\ rpending = <<>>
    /\ rdeltas = 0
    /\ handed = NoEvent
    /\ out = <<>>
    /\ llmCalls = 0
    /\ response = NoResponse
    /\ produced = 0

RunnerInit == \E cfg \in RunnerConfigs : RunnerAt(cfg)

\* the Runner left alone
RunnerQuiet ==
    RunnerAt([registered |-> TRUE, llm_client |-> None, max_iterations |-> MaxIter,
              stream |-> FALSE])

\* the part of run and run_stream before the loop: the user message is recorded.
\* A call is the first on the session or follows a finished one (explored after
\* turns that left at most MaxTurnLog Events); llmCalls and out count per call
StartTurn(stream, user_message) ==
    /\ rpc = "idle" \/ (rpc = "done" /\ Len(log) <= MaxTurnLog)
    /\ log' = add_event(log, Event("user_message", [text |-> user_message], produced + 1))
    /\ produced' = produced + 1
    /\ rcfg' = [rcfg EXCEPT !.stream = stream]
    /\ rpc' = "loop"
    /\ handed' = NoEvent
    /\ out' = <<>>
    /\ llmCalls' = 0
    /\ UNCHANGED <<messages, rpending, rdeltas, response>>

RunnerRun(user_message) == StartTurn(FALSE, user_message)

RunnerRunStream(user_message) == StartTurn(TRUE, user_message)

\* session.add_event(event), and yield event when the call is run_stream
Record(event) ==
    /\ log' = add_event(log, event)
    /\ produced' = produced + 1
    /\ IF rcfg.stream
       THEN handed' = event /\ out' = Append(out, event)
       ELSE handed' = NoEvent /\ UNCHANGED out

AfterResponse(resp) ==
    IF resp.tool_calls # <<>>
    THEN rpc' = "tools" /\ rpending' = resp.tool_calls
    ELSE rpc' = "done" /\ rpending' = <<>>

ModelResponseEvent(resp) ==
    Event("model_response", [text |-> resp.content], produced + 1)

\* one pass of _reason_act_loop / _reason_act_loop_stream up to the model's
\* answer, with llm_client None: the mocked answer is recorded at once
RunnerMockCall ==
    /\ rpc = "loop"
    /\ rcfg.llm_client = None
    /\ llmCalls < MaxModelCalls
    /\ LET msgs == build_messages(log)
           resp == mock_llm_response(msgs)
       IN /\ messages' = msgs
          /\ response' = resp
          /\ Record(ModelResponseEvent(resp))
          /\ AfterResponse(resp)
    /\ llmCalls' = llmCalls + 1
    /\ UNCHANGED <<rcfg, rdeltas>>

\* _reason_act_loop with a client: _call_llm answers and the answer is recorded
RunnerCallLlm(resp) ==
    /\ rpc = "loop"
    /\ rcfg.llm_client # None
    /\ ~rcfg.stream
    /\ llmCalls < MaxModelCalls
    /\ messages' = build_messages(log)
    /\ response' = resp
    /\ Record(ModelResponseEvent(resp))
    /\ AfterResponse(resp)
    /\ llmCalls' = llmCalls + 1
    /\ UNCHANGED <<rcfg, rdeltas>>

\* _reason_act_loop_stream with a client: _call_llm_stream is started
RunnerCallLlmStream(resp, n) ==
    /\ rpc = "loop"
    /\ rcfg.llm_client # None
    /\ rcfg.stream
    /\ llmCalls < MaxModelCalls
    /\ messages' = build_messages(log)
    /\ response' = resp
    /\ rdeltas' = n
    /\ rpc' = "stream"
    /\ llmCalls' = llmCalls + 1
    /\ handed' = NoEvent
    /\ UNCHANGED <<rcfg, log, rpending, out, produced>>

\* a content chunk: a MODEL_RESPONSE_DELTA Event is yielded and not recorded
DeltaEvent == Event("model_response_delta", [text |-> "chunk"], produced + 1)

\* a content chunk whose Event is recorded in the session as well
RunnerDeltaRecorded ==
    /\ rpc = "stream"
    /\ rdeltas > 0
    /\ rdeltas' = rdeltas - 1
    /\ Record(DeltaEvent)
    /\ UNCHANGED <<rpc, rcfg, messages, rpending, llmCalls, response>>

RunnerDelta ==
    /\ rpc = "stream"
    /\ rdeltas > 0
    /\ rdeltas' = rdeltas - 1
    /\ handed' = DeltaEvent
    /\ out' = Append(out, DeltaEvent)
    /\ produced' = produced + 1
    /\ UNCHANGED <<rpc, rcfg, log, messages, rpending, llmCalls, response>>

\* the chunk marked done: the full response is recorded and yielded
RunnerStreamDone ==
    /\ rpc = "stream"
    /\ rdeltas = 0
    /\ Record(ModelResponseEvent(response))
    /\ AfterResponse(response)
    /\ UNCHANGED <<rcfg, messages, rdeltas, llmCalls, response>>

\* _execute_tool / _execute_tool_stream, first half: the TOOL_CALL Event
RunnerToolCall ==
    /\ rpc = "tools"
    /\ rpending # <<>>
    /\ Record(Event("tool_call", Head(rpending), produced + 1))
    /\ rpc' = "execute"
    /\ UNCHANGED <<rcfg, messages, rpending, rdeltas, llmCalls, response>>

AfterTool ==
    /\ rpending' = Tail(rpending)
    /\ rpc' = IF Tail(rpending) = <<>> THEN "loop" ELSE "tools"

\* second half: the tool runs and returns
RunnerToolReturns ==
    /\ rpc = "execute"
    /\ find_tool(Head(rpending).name) # None
    /\ Record(Event("tool_response",
                    [call_id |-> Head(rpending).id, name |-> Head(rpending).name,
                     result |-> "result"], produced + 1))
    /\ AfterTool
    /\ UNCHANGED <<rcfg, messages, rdeltas, llmCalls, response>>

\* second half: the tool (or the decoding of its arguments) raises
RunnerToolRaises ==
    /\ rpc = "execute"
    /\ find_tool(Head(rpending).name) # None
    /\ Record(Event("error", [tool |-> Head(rpending).name, error |-> "raised"],
                    produced + 1))
    /\ AfterTool
    /\ UNCHANGED <<rcfg, messages, rdeltas, llmCalls, response>>

\* second half: agent.tools holds no tool of that name, nothing more is done
RunnerToolMissing ==
    /\ rpc = "execute"
    /\ find_tool(Head(rpending).name) = None
    /\ handed' = NoEvent
    /\ AfterTool
    /\ UNCHANGED <<rcfg, log, messages, rdeltas, out, llmCalls, response, produced>>

\* ---------------------------------------------------------------- SimpleFlow

\* agent.tools of the agent a flow runs
FlowTools == {"get_weather", "escalate", "transfer_to_agent"}

flow_find_tool(tool_name) == IF tool_name \in FlowTools THEN tool_name ELSE None

\* what running a tool may come to: a plain result, an exception, or the
\* mapping the escalate and transfer tools return
ToolOutcomes(tool_name) ==
    CASE tool_name = "escalate" -> {"escalate"}
      [] tool_name = "transfer_to_agent" -> {"transfer"}
      [] OTHER -> {"result", "raise"}

NoFlowResponse == [content |-> None, function_calls |-> <<>>]

\* the final (non-partial) LlmResponse of a model call
FlowResponses ==
    { [content |-> "text", function_calls |-> <<>>] } \cup
    { [content |-> "", function_calls |-> [i \in 1..Len(names) |-> ToolCall(i, names[i])]]
        : names \in FlowCallNameLists }

has_function_calls(resp) == resp.function_calls # <<>>

FlowAt(max_iterations) ==
    /\ fpc = "idle"
    /\ fmax = max_iterations
    /\ iteration = 0
    /\ fresponse = NoFlowResponse
    /\ fpending = <<>>
    /\ fdeltas = 0
    /\ fout = <<>>
    /\ fmodelCalls = 0
    /\ fraised = <<>>

FlowInit == \E m \in 0..MaxFlowIter : FlowAt(m)

\* the flow left alone
FlowQuiet == FlowAt(0)

FlowYield(event) == fout' = Append(fout, event)

\* run_stream_async: the loop is entered with iteration = 0
FlowRunStreamAsync ==
    /\ fpc = "idle"
    /\ fpc' = "loop"
    /\ iteration' = 0
    /\ UNCHANGED <<fmax, fresponse, fpending, fdeltas, fout, fmodelCalls, fraised>>

\* a ceiling test that lets one iteration too many through
AtCeilingLate(i, max_iterations) == i > max_iterations

\* if iteration >= self.max_iterations
AtCeiling(i, max_iterations) == i >= max_iterations

CeilingError(i, n) == Event("error", [error |-> "max_iterations", iteration |-> i], n)

\* the ceiling: one ERROR Event is yielded and the generator returns
FlowCeiling ==
    /\ fpc = "loop"
    /\ AtCeiling(iteration, fmax)
    /\ FlowYield(CeilingError(iteration, Len(fout) + 1))
    /\ fpc' = "done"
    /\ UNCHANGED <<fmax, iteration, fresponse, fpending, fdeltas, fmodelCalls, fraised>>

\* below the ceiling: build_request and llm.generate_stream_async(request)
FlowGenerate(n) ==
    /\ fpc = "loop"
    /\ ~AtCeiling(iteration, fmax)
    /\ fmodelCalls' = fmodelCalls + 1
    /\ fresponse' = NoFlowResponse
    /\ fdeltas' = n
    /\ fpc' = "stream"
    /\ UNCHANGED <<fmax, iteration, fpending, fout, fraised>>

\* a partial response: a MODEL_RESPONSE_DELTA Event is yielded
FlowDelta ==
    /\ fpc = "stream"
    /\ fdeltas > 0
    /\ fdeltas' = fdeltas - 1
    /\ FlowYield(Event("model_response_delta", [text |-> "chunk"], Len(fout) + 1))
    /\ UNCHANGED <<fpc, fmax, iteration, fresponse, fpending, fmodelCalls, fraised>>

\* the final response: a MODEL_RESPONSE Event is yielded; with function calls
\* the tools are next, without them the generator returns
FlowFinal(resp) ==
    /\ fpc = "stream"
    /\ fdeltas = 0
    /\ fresponse' = resp
    /\ FlowYield(Event("model_response", [text |-> resp.content], Len(fout) + 1))
    /\ IF has_function_calls(resp)
       THEN fpc' = "tools" /\ fpending' = resp.function_calls
       ELSE fpc' = "done" /\ fpending' = <<>>
    /\ UNCHANGED <<fmax, iteration, fdeltas, fmodelCalls, fraised>>

\* _execute_tool_stream_async, first half: the TOOL_CALL Event
FlowToolCall ==
    /\ fpc = "tools"
    /\ fpending # <<>>
    /\ FlowYield(Event("tool_call", Head(fpending), Len(fout) + 1))
    /\ fpc' = "execute"
    /\ UNCHANGED <<fmax, iteration, fresponse, fpending, fdeltas, fmodelCalls, fraised>>

\* a for loop over function_calls that gives up the calls still to come
FlowAbortSiblings ==
    /\ fpending' = <<>>
    /\ fpc' = "loop"
    /\ iteration' = iteration + 1

\* the for loop over function_calls moves on; after the last call the loop
\* is entered again with iteration + 1
FlowAfterTool ==
    /\ fpending' = Tail(fpending)
    /\ IF Tail(fpending) = <<>>
       THEN fpc' = "loop" /\ iteration' = iteration + 1
       ELSE fpc' = "tools" /\ UNCHANGED iteration

FlowToolRuns(outcome) ==
    /\ fpc = "execute"
    /\ flow_find_tool(Head(fpending).name) # None
    /\ outcome \in ToolOutcomes(Head(fpending).name)

ToolResponse(fc, result, n) ==
    Event("tool_response", [call_id |-> fc.id, name |-> fc.name, result |-> result], n)

\* second half: the tool returns an ordinary result
FlowToolReturns ==
    /\ FlowToolRuns("result")
    /\ FlowYield(ToolResponse(Head(fpending), "result", Len(fout) + 1))
    /\ FlowAfterTool
    /\ UNCHANGED <<fmax, fresponse, fdeltas, fmodelCalls, fraised>>

\* second half: the tool raises, an ERROR Event names it
FlowToolRaises ==
    /\ FlowToolRuns("raise")
    /\ FlowYield(Event("error", [tool |-> Head(fpending).name, error |-> "raised"],
                       Len(fout) + 1))
    /\ fraised' = Append(fraised, Head(fpending).name)
    /\ FlowAfterTool
    /\ UNCHANGED <<fmax, fresponse, fdeltas, fmodelCalls>>

\* second half: the result is a mapping with transfer set
FlowToolTransfers ==
    /\ FlowToolRuns("transfer")
    /\ FlowYield([Event("agent_transfer", [target_agent |-> "target"], Len(fout) + 1)
                    EXCEPT !.actions.transfer_to_agent = "target",
                           !.metadata.transfer_to_agent = "target"])
    /\ FlowAfterTool
    /\ UNCHANGED <<fmax, fresponse, fdeltas, fmodelCalls, fraised>>

\* second half: the result is a mapping with escalate set
FlowToolEscalates ==
    /\ FlowToolRuns("escalate")
    /\ FlowYield([ToolResponse(Head(fpending), "Task completed", Len(fout) + 1)
                    EXCEPT !.actions.escalate = TRUE, !.metadata.escalate = TRUE])
    /\ FlowAfterTool
    /\ UNCHANGED <<fmax, fresponse, fdeltas, fmodelCalls, fraised>>

\* second half: find_tool finds nothing, nothing more is yielded
FlowToolMissing ==
    /\ fpc = "execute"
    /\ flow_find_tool(Head(fpending).name) = None
    /\ FlowAfterTool
    /\ UNCHANGED <<fmax, fresponse, fdeltas, fout, fmodelCalls, fraised>>

\* ----------------------------------------------------------------- LoopAgent

\* max_iterations: Optional[int]; none stands for None
LoopCeilings ==
    { [none |-> TRUE, n |-> 0] } \cup { [none |-> FALSE, n |-> k] : k \in 0..MaxLoopIter }

\* Python's truth value of max_iterations: None and 0 are false
Truthy(max_iterations) == ~max_iterations.none /\ max_iterations.n # 0

LoopConfigs == [max_iterations : LoopCeilings, sub_agents : 0..MaxSubAgents]

SubAgentName(i) == <<"sub1", "sub2", "sub3", "sub4">>[i]

\* what a sub-agent may yield: an ordinary Event, or the escalate tool's
\* TOOL_RESPONSE, which carries escalate in its actions and in its metadata
SubAgentEvent(author, escalates) ==
    IF escalates
    THEN [event_type |-> "tool_response", author |-> author, partial |-> FALSE,
          actions |-> [NoActions EXCEPT !.escalate = TRUE], metadata |-> [escalate |-> TRUE]]
    ELSE [event_type |-> "model_response", author |-> author, partial |-> FALSE,
          actions |-> NoActions, metadata |-> [escalate |-> FALSE]]

\* event.metadata['loop_agent'] = self.name; event.metadata['loop_iteration'] = loop_idx
Stamp(event, idx) ==
    [event EXCEPT !.metadata = [escalate |-> event.metadata.escalate,
                                loop_agent |-> "loop", loop_iteration |-> idx]]

\* event.metadata.get('escalate')
IsEscalate(event) == event.metadata.escalate

LoopAt(cfg) ==
    /\ lpc = "idle"
    /\ lcfg = cfg
    /\ loop_idx = 0
    /\ should_exit = FALSE
    /\ lsub = 0
    /\ lout = <<>>
    /\ lstarts = <<>>

LoopInit == \E cfg \in LoopConfigs : LoopAt(cfg)

\* the LoopAgent left alone
LoopQuiet == LoopAt([max_iterations |-> [none |-> TRUE, n |-> 0], sub_agents |-> 0])

\* _run_async_impl up to the while: without sub_agents it returns at once
LoopRun ==
    /\ lpc = "idle"
    /\ lpc' = IF lcfg.sub_agents = 0 THEN "done" ELSE "while"
    /\ loop_idx' = 0
    /\ should_exit' = FALSE
    /\ UNCHANGED <<lcfg, lsub, lout, lstarts>>

\* the while ends: should_exit is set, or the ceiling is reached
LoopExit ==
    /\ lpc = "while"
    /\ \/ should_exit
       \/ Truthy(lcfg.max_iterations) /\ loop_idx >= lcfg.max_iterations.n
    /\ lpc' = "done"
    /\ UNCHANGED <<lcfg, loop_idx, should_exit, lsub, lout, lstarts>>

\* a pass begins: the for loop over sub_agents is entered
LoopPass ==
    /\ lpc = "while"
    /\ ~should_exit
    /\ ~(Truthy(lcfg.max_iterations) /\ loop_idx >= lcfg.max_iterations.n)
    /\ loop_idx < MaxPasses
    /\ lpc' = "for"
    /\ lsub' = 1
    /\ UNCHANGED <<lcfg, loop_idx, should_exit, lout, lstarts>>

\* the for loop takes the next sub-agent and starts its run_async
LoopStartSub ==
    /\ lpc = "for"
    /\ lsub <= lcfg.sub_agents
    /\ lstarts' = Append(lstarts, <<loop_idx, lsub>>)
    /\ lpc' = "sub"
    /\ UNCHANGED <<lcfg, loop_idx, should_exit, lsub, lout>>

\* the for loop is through: loop_idx += 1
LoopEndOfPass ==
    /\ lpc = "for"
    /\ lsub > lcfg.sub_agents
    /\ loop_idx' = loop_idx + 1
    /\ lpc' = "while"
    /\ UNCHANGED <<lcfg, should_exit, lsub, lout, lstarts>>

\* an escalate handling that leaves the inner loop only: the for loop over
\* sub_agents goes on with the next sub-agent
AfterEscalateInnerOnly ==
    /\ lsub' = lsub + 1
    /\ lpc' = "for"
    /\ UNCHANGED <<should_exit, loop_idx>>

\* after an escalating Event: should_exit is set, both for loops are left and
\* loop_idx += 1 is reached
AfterEscalate ==
    /\ should_exit' = TRUE
    /\ loop_idx' = loop_idx + 1
    /\ lpc' = "while"
    /\ UNCHANGED lsub

\* the running sub-agent yields an Event: it is stamped and yielded, then
\* looked at for the escalate signal
LoopSubYields(escalates) ==
    /\ lpc = "sub"
    /\ Len(lout) < MaxLoopEvents
    /\ LET event == Stamp(SubAgentEvent(SubAgentName(lsub), escalates), loop_idx)
       IN /\ lout' = Append(lout, event)
          /\ IF IsEscalate(event)
             THEN AfterEscalate
             ELSE UNCHANGED <<lpc, loop_idx, should_exit, lsub>>
    /\ UNCHANGED <<lcfg, lstarts>>

\* the running sub-agent's generator is exhausted
LoopSubEnds ==
    /\ lpc = "sub"
    /\ lsub' = lsub + 1
    /\ lpc' = "for"
    /\ UNCHANGED <<lcfg, loop_idx, should_exit, lout, lstarts>>

seqVars == <<qpc, qcfg, qi, qyielded, qout, qstarts, qends>>

\* ----------------------------------------------------------- SequentialAgent

SeqConfigs == [sub_agents : 0..MaxSeqSubAgents]

SeqAt(cfg) ==
    /\ qpc = "idle"
    /\ qcfg = cfg
    /\ qi = 0
    /\ qyielded = 0
    /\ qout = <<>>
    /\ qstarts = <<>>
    /\ qends = <<>>

SeqInit == \E cfg \in SeqConfigs : SeqAt(cfg)

\* the SequentialAgent left alone
SeqQuiet == SeqAt([sub_agents |-> 0])

\* _run_async_impl up to the for loop: without sub_agents it returns at once
SeqRun ==
    /\ qpc = "idle"
    /\ qpc' = IF qcfg.sub_agents = 0 THEN "done" ELSE "for"
    /\ qi' = 0
    /\ UNCHANGED <<qcfg, qyielded, qout, qstarts, qends>>

\* enumerate hands out the next (i, sub_agent) and its run_async is started
SeqStartSub ==
    /\ qpc = "for"
    /\ qi < qcfg.sub_agents
    /\ qstarts' = Append(qstarts, qi + 1)
    /\ qyielded' = 0
    /\ qpc' = "sub"
    /\ UNCHANGED <<qcfg, qi, qout, qends>>

\* an Event stamped without its index
SeqStampNameOnly(event, i) ==
    [event EXCEPT !.metadata = [escalate |-> event.metadata.escalate,
                                sequential_agent |-> "pipeline", sequential_index |-> 0]]

\* event.metadata['sequential_agent'] = self.name; event.metadata['sequential_index'] = i
SeqStamp(event, i) ==
    [event EXCEPT !.metadata = [escalate |-> event.metadata.escalate,
                                sequential_agent |-> "pipeline", sequential_index |-> i]]

\* the running sub-agent yields an Event: it is stamped and yielded; an
\* escalate it carries is not looked at
SeqSubYields(escalates) ==
    /\ qpc = "sub"
    /\ qyielded < MaxSeqEvents
    /\ qyielded' = qyielded + 1
    /\ qout' = Append(qout, SeqStamp(SubAgentEvent(SubAgentName(qi + 1), escalates), qi))
    /\ UNCHANGED <<qpc, qcfg, qi, qstarts, qends>>

\* the running sub-agent's generator is exhausted: the for loop moves on
SeqSubEnds ==
    /\ qpc = "sub"
    /\ qends' = Append(qends, qi + 1)
    /\ qi' = qi + 1
    /\ qpc' = "for"
    /\ UNCHANGED <<qcfg, qyielded, qout, qstarts>>

\* the for loop is through
SeqCompleted ==
    /\ qpc = "for"
    /\ qi >= qcfg.sub_agents
    /\ qpc' = "done"
    /\ UNCHANGED <<qcfg, qi, qyielded, qout, qstarts, qends>>

treeVars == <<agents, tasked>>

\* ------------------------------------------------------------------ agent trees

NoAgent == 0

AgentIds == {1, 2, 3}

AgentNames == {"english", "chinese"}

OrchestratorKinds == {"SequentialAgent", "LoopAgent"}

\* the keyword arguments of a construction, sub_agents aside
AgentArgs ==
    [kind : {"LlmAgent"}, name : AgentNames,
     disallow_transfer_to_parent : BOOLEAN, disallow_transfer_to_peers : BOOLEAN]
    \cup [kind : OrchestratorKinds, name : AgentNames,
          disallow_transfer_to_parent : {FALSE}, disallow_transfer_to_peers : {FALSE}]

\* the agents whose constructor returned
Constructed == {a \in DOMAIN agents : agents[a].constructed}

\* the lists a caller can pass as sub_agents: agents it holds
SubAgentLists ==
    {<<>>} \cup {<<a>> : a \in Constructed}
           \cup {<<a, b>> : a \in Constructed, b \in Constructed}

NoCall == [agent |-> NoAgent, result |-> <<>>]

TreeInit ==
    /\ agents = <<>>
    /\ tasked = NoCall

\* the validated fields of a new object, before model_post_init
NewAgent(args, subs) ==
    [kind |-> args.kind, name |-> args.name, sub_agents |-> subs,
     parent_agent |-> NoAgent,
     disallow_transfer_to_parent |-> args.disallow_transfer_to_parent,
     disallow_transfer_to_peers |-> args.disallow_transfer_to_peers,
     constructed |-> FALSE]

\* for sub_agent in self.sub_agents: raise ValueError if it has a parent, else
\* sub_agent.parent_agent = self; the objects as the loop leaves them, the new
\* one constructed only when the loop ran to its end
RECURSIVE set_parent_for_sub_agents(_, _, _)
set_parent_for_sub_agents(ags, self, k) ==
    IF k > Len(ags[self].sub_agents)
    THEN [ags EXCEPT ![self].constructed = TRUE]
    ELSE LET sub_agent == ags[self].sub_agents[k]
         IN  IF ags[sub_agent].parent_agent # NoAgent
             THEN ags
             ELSE set_parent_for_sub_agents(
                      [ags EXCEPT ![sub_agent].parent_agent = self], self, k + 1)

\* cls(name=..., sub_agents=[...], ...): validation, then model_post_init
Construct(args, subs) ==
    /\ Len(agents) + 1 \in AgentIds
    /\ agents' = set_parent_for_sub_agents(
                     Append(agents, NewAgent(args, subs)), Len(agents) + 1, 1)
    /\ UNCHANGED tasked

ConstructLlmAgent ==
    \E args \in AgentArgs, subs \in SubAgentLists :
        args.kind = "LlmAgent" /\ Construct(args, subs)

ConstructSequentialAgent ==
    \E args \in AgentArgs, subs \in SubAgentLists :
        args.kind = "SequentialAgent" /\ Construct(args, subs)

ConstructLoopAgent ==
    \E args \in AgentArgs, subs \in SubAgentLists :
        args.kind = "LoopAgent" /\ Construct(args, subs)

\* the root_agent property: follow parent_agent until it is None
RECURSIVE root_agent(_, _)
root_agent(ags, a) ==
    IF ags[a].parent_agent = NoAgent THEN a ELSE root_agent(ags, ags[a].parent_agent)

\* find_agent and find_sub_agent: self if it has the name, else the first hit
\* of find_agent among the sub-agents in list order, else None
RECURSIVE find_agent(_, _, _)
RECURSIVE find_sub_agent(_, _, _, _)
find_agent(ags, self, name) ==
    IF ags[self].name = name THEN self ELSE find_sub_agent(ags, self, name, 1)

find_sub_agent(ags, self, name, k) ==
    IF k > Len(ags[self].sub_agents) THEN NoAgent
    ELSE LET result == find_agent(ags, ags[self].sub_agents[k], name)
         IN  IF result # NoAgent THEN result
             ELSE find_sub_agent(ags, self, name, k + 1)

\* [sibling for sibling in parent.sub_agents if sibling.name != self.name]
RECURSIVE SiblingsByName(_, _, _)
SiblingsByName(ags, subs, name) ==
    IF subs = <<>> THEN <<>>
    ELSE (IF ags[Head(subs)].name # name THEN <<Head(subs)>> ELSE <<>>)
         \o SiblingsByName(ags, Tail(subs), name)

\* LlmAgent.get_transferable_agents of the agents package
get_transferable_agents(ags, self) ==
    LET me == ags[self]
        parent_is_llm_agent ==
            me.parent_agent # NoAgent /\ ags[me.parent_agent].kind = "LlmAgent"
    IN  me.sub_agents
        \o (IF ~me.disallow_transfer_to_parent /\ me.parent_agent # NoAgent
               /\ parent_is_llm_agent
            THEN <<me.parent_agent>> ELSE <<>>)
        \o (IF ~me.disallow_transfer_to_peers /\ me.parent_agent # NoAgent
               /\ parent_is_llm_agent
            THEN SiblingsByName(ags, ags[me.parent_agent].sub_agents, me.name)
            ELSE <<>>)

\* Agent.get_transferable_agents of the module agents.py, which the agents
\* package of the same name shadows on import
Agent_get_transferable_agents(ags, self) ==
    LET me == ags[self]
    IN  me.sub_agents
        \o (IF ~me.disallow_transfer_to_parent /\ me.parent_agent # NoAgent
            THEN <<me.parent_agent>> ELSE <<>>)
        \o (IF ~me.disallow_transfer_to_peers /\ me.parent_agent # NoAgent
            THEN SiblingsByName(ags, ags[me.parent_agent].sub_agents, me.name)
            ELSE <<>>)

\* a caller asks an LLM agent it holds for its transferable agents
GetTransferableAgents ==
    \E a \in Constructed :
        /\ agents[a].kind = "LlmAgent"
        /\ tasked' = [agent |-> a, result |-> get_transferable_agents(agents, a)]
        /\ UNCHANGED agents

llmVars == <<gpc, gcfg, gpos, gfilter, full_content, tool_calls_data, gvisible, gout, gcontacts>>

\* ------------------------------------------------------------ OpenAILlm.generate

\* strings are sequences of characters
OpenTag == <<"<", "t", "h", "i", "n", "k", ">">>
CloseTag == <<"<", "/", "t", "h", "i", "n", "k", ">">>
Whitespace == {" ", "\n"}

\* s[:n] and s[n:]
Take(s, n) == SubSeq(s, 1, n)
Drop(s, n) == SubSeq(s, n + 1, Len(s))

\* str.find: the first index (from 0) where sub starts in s, -1 when nowhere
find(s, sub) ==
    IF \E i \in 1..(Len(s) - Len(sub) + 1) : SubSeq(s, i, i + Len(sub) - 1) = sub
    THEN (CHOOSE i \in 1..(Len(s) - Len(sub) + 1) :
             /\ SubSeq(s, i, i + Len(sub) - 1) = sub
             /\ \A j \in 1..(i - 1) : SubSeq(s, j, j + Len(sub) - 1) # sub) - 1
    ELSE -1

\* str.strip
RECURSIVE strip(_)
strip(s) ==
    IF s = <<>> THEN s
    ELSE IF Head(s) \in Whitespace THEN strip(Tail(s))
    ELSE IF s[Len(s)] \in Whitespace THEN strip(Take(s, Len(s) - 1))
    ELSE s

\* the pieces the endpoint's texts are made of
TextPieces ==
    {<<" ">>, OpenTag, CloseTag,
     <<"b", "c", "d", "e", "f", "g", "h", "i", "j", "k", "l">>}

RECURSIVE Flatten(_)
Flatten(ps) == IF ps = <<>> THEN <<>> ELSE Head(ps) \o Flatten(Tail(ps))

\* longer texts: text around one span, two spans, long thinking text
LongTexts ==
    {Flatten(<<<<"a">>, OpenTag, <<"s", "e", "c", "r", "e", "t">>, CloseTag, <<"b">>>>),
     Flatten(<<OpenTag, <<"a">>, CloseTag, <<"x">>, OpenTag, <<"b">>, CloseTag>>),
     Flatten(<<<<" ">>, OpenTag, <<" ">>,
               <<"b", "c", "d", "e", "f", "g", "h", "i", "j", "k", "l">>, CloseTag, <<"a">>>>)}

ModelTexts ==
    LongTexts \cup UNION {{Flatten(ps) : ps \in [1..n -> TextPieces]} : n \in 0..MaxPieces}

ErrorTexts == {"Connection error."}

GenerateCalls == [stream : BOOLEAN, show_thinking : BOOLEAN, text : ModelTexts]

\* ThinkingFilter.__init__
NewThinkingFilter ==
    [buffer |-> <<>>, in_thinking |-> FALSE, thinking_content |-> <<>>,
     clean_content |-> <<>>]

\* the while loop of process_delta over [filter, output]
RECURSIVE process_buffer(_)
process_buffer(st) ==
    LET f == st.filter
        buffer == f.buffer
    IN  IF buffer = <<>> THEN st
        ELSE IF ~f.in_thinking
        THEN LET think_start_idx == find(buffer, OpenTag)
             IN  IF think_start_idx = -1
                 THEN IF Len(buffer) > 10
                      THEN [filter |-> [f EXCEPT
                                !.clean_content = @ \o Take(buffer, Len(buffer) - 7),
                                !.buffer = Drop(buffer, Len(buffer) - 7)],
                            output |-> st.output \o Take(buffer, Len(buffer) - 7)]
                      ELSE st
                 ELSE process_buffer(
                        [filter |-> [f EXCEPT
                            !.clean_content = @ \o Take(buffer, think_start_idx),
                            !.buffer = Drop(buffer, think_start_idx + 7),
                            !.in_thinking = TRUE],
                         output |-> st.output \o Take(buffer, think_start_idx)])
        ELSE LET think_end_idx == find(buffer, CloseTag)
             IN  IF think_end_idx = -1
                 THEN IF Len(buffer) > 10
                      THEN [filter |-> [f EXCEPT
                                !.thinking_content = @ \o Take(buffer, Len(buffer) - 8),
                                !.buffer = Drop(buffer, Len(buffer) - 8)],
                            output |-> st.output]
                      ELSE st
                 ELSE process_buffer(
                        [filter |-> [f EXCEPT
                            !.thinking_content = @ \o Take(buffer, think_end_idx),
                            !.buffer = Drop(buffer, think_end_idx + 8),
                            !.in_thinking = FALSE],
                         output |-> st.output])

\* a filter that hands a buffer without a tag on at once
process_delta_eager(f, delta) ==
    LET st == process_buffer([filter |-> [f EXCEPT !.buffer = @ \o delta], output |-> <<>>])
    IN  IF st.filter.in_thinking THEN st
        ELSE [filter |-> [st.filter EXCEPT !.clean_content = @ \o st.filter.buffer,
                                           !.buffer = <<>>],
              output |-> st.output \o st.filter.buffer]

\* ThinkingFilter.process_delta: the filter after the call and the output
process_delta(f, delta) ==
    process_buffer([filter |-> [f EXCEPT !.buffer = @ \o delta], output |-> <<>>])

\* ThinkingFilter.finalize: (clean_content, thinking_content, remaining)
finalize(f) ==
    LET thinking_content ==
            IF f.buffer # <<>> /\ f.in_thinking
            THEN f.thinking_content \o f.buffer ELSE f.thinking_content
        clean_content ==
            IF f.buffer # <<>> /\ ~f.in_thinking
            THEN f.clean_content \o f.buffer ELSE f.clean_content
    IN  [clean_content |-> strip(clean_content),
         thinking_content |-> strip(thinking_content),
         remaining |-> IF f.in_thinking THEN <<>> ELSE f.buffer]

\* re.findall(r'<think>(.*?)</think>', s, re.DOTALL) as parts and
\* re.sub(r'<think>(.*?)</think>', '', s) as rest
RECURSIVE think_pattern(_)
think_pattern(s) ==
    LET open == find(s, OpenTag)
        close == IF open = -1 THEN -1 ELSE find(Drop(s, open + 7), CloseTag)
    IN  IF open = -1 \/ close = -1 THEN [parts |-> <<>>, rest |-> s]
        ELSE LET after == think_pattern(Drop(s, open + 7 + close + 8))
             IN  [parts |-> <<SubSeq(s, open + 8, open + 7 + close)>> \o after.parts,
                  rest |-> Take(s, open) \o after.rest]

\* '\n'.join(part.strip() for part in parts)
RECURSIVE join_stripped(_)
join_stripped(parts) ==
    IF parts = <<>> THEN <<>>
    ELSE IF Len(parts) = 1 THEN strip(parts[1])
    ELSE strip(parts[1]) \o <<"\n">> \o join_stripped(Tail(parts))

\* OpenAILlm._extract_thinking: (clean_content, thinking_content)
extract_thinking(raw_content) ==
    IF raw_content = <<>> THEN [clean_content |-> <<>>, thinking_content |-> <<>>]
    ELSE [clean_content |-> strip(think_pattern(raw_content).rest),
          thinking_content |-> join_stripped(think_pattern(raw_content).parts)]

\* LlmResponse: the fields looked at; error None is "None"
LlmResponse(partial, delta, content, thinking, function_calls, error) ==
    [partial |-> partial, delta |-> delta, content |-> content, thinking |-> thinking,
     function_calls |-> function_calls, error |-> error]

\* LlmResponse.create_delta
create_delta(delta) == LlmResponse(TRUE, delta, <<>>, <<>>, <<>>, None)

\* LlmResponse.from_error; the placeholder text is the source's, in English
from_error(error) == LlmResponse(FALSE, <<>>, <<"LLM call failed: ", error>>, <<>>, <<>>, error)

\* a generator's yield, seen by its consumer: consecutive fragments are kept
\* joined in the history
Yielded(responses, r) ==
    IF r.partial /\ responses # <<>> /\ Last(responses).partial
    THEN [responses EXCEPT ![Len(responses)].delta = @ \o r.delta]
    ELSE Append(responses, r)

LlmAt(call) ==
    /\ gpc = "idle"
    /\ gcfg = call
    /\ gpos = 0
    /\ gfilter = NewThinkingFilter
    /\ full_content = <<>>
    /\ tool_calls_data = <<>>
    /\ gvisible = <<>>
    /\ gout = <<>>
    /\ gcontacts = 0

LlmInit == \E call \in GenerateCalls : LlmAt(call)

LlmQuiet == LlmAt([stream |-> FALSE, show_thinking |-> FALSE, text |-> <<>>])

\* an except clause that asks the endpoint again
OnExceptionRetry(e) ==
    /\ gpc' = IF gcontacts < 2 THEN "idle" ELSE "done"
    /\ gout' = IF gcontacts < 2 THEN gout ELSE Yielded(gout, from_error(e))

\* except Exception as e: yield LlmResponse.from_error(str(e))
OnException(e) ==
    /\ gpc' = "done"
    /\ gout' = Yielded(gout, from_error(e))

\* generate(stream=False), the endpoint answering: _parse_response, yield result
GenerateOnce ==
    /\ gpc = "idle"
    /\ ~gcfg.stream
    /\ gcontacts' = gcontacts + 1
    /\ \E function_calls \in {<<>>, <<"get_weather">>} :
          gout' = Yielded(gout,
                      LlmResponse(FALSE, <<>>, extract_thinking(gcfg.text).clean_content,
                                  extract_thinking(gcfg.text).thinking_content,
                                  function_calls, None))
    /\ gpc' = "done"
    /\ UNCHANGED <<gcfg, gpos, gfilter, full_content, tool_calls_data, gvisible>>

\* generate(stream=True), the endpoint answering with a stream
GenerateStream ==
    /\ gpc = "idle"
    /\ gcfg.stream
    /\ gcontacts' = gcontacts + 1
    /\ gpc' = "stream"
    /\ UNCHANGED <<gcfg, gpos, gfilter, full_content, tool_calls_data, gvisible, gout>>

\* client.chat.completions.create raises, whatever stream is
CreateRaises ==
    /\ gpc = "idle"
    /\ gcontacts' = gcontacts + 1
    /\ \E e \in ErrorTexts : OnException(e)
    /\ UNCHANGED <<gcfg, gpos, gfilter, full_content, tool_calls_data, gvisible>>

\* a fragment that yields once what the stream has shown
StreamChunkRepeats(n) ==
    /\ gpc = "stream"
    /\ gpos + n <= Len(gcfg.text)
    /\ LET content == SubSeq(gcfg.text, gpos + 1, gpos + n)
           st == process_delta(gfilter, content)
       IN  /\ full_content' = full_content \o content
           /\ gfilter' = st.filter
           /\ gvisible' = gvisible \o st.output
           /\ gout' = Yielded(gout, LlmResponse(FALSE, content, <<>>, <<>>, <<>>, None))
    /\ gpos' = gpos + n
    /\ UNCHANGED <<gpc, gcfg, tool_calls_data, gcontacts>>

\* _process_stream, a chunk with content: the next n characters of the text
StreamChunk(n) ==
    /\ gpc = "stream"
    /\ gpos + n <= Len(gcfg.text)
    /\ LET content == SubSeq(gcfg.text, gpos + 1, gpos + n)
           st == process_delta(gfilter, content)
       IN  /\ full_content' = full_content \o content
           /\ gfilter' = st.filter
           /\ gvisible' = gvisible \o st.output
           /\ gout' = IF gcfg.show_thinking THEN Yielded(gout, create_delta(content))
                      ELSE IF st.output # <<>> THEN Yielded(gout, create_delta(st.output))
                      ELSE gout
    /\ gpos' = gpos + n
    /\ UNCHANGED <<gpc, gcfg, tool_calls_data, gcontacts>>

\* _process_stream, a chunk without content that names a tool call
StreamToolCallChunk ==
    /\ gpc = "stream"
    /\ tool_calls_data = <<>>
    /\ tool_calls_data' = <<"get_weather">>
    /\ UNCHANGED <<gpc, gcfg, gpos, gfilter, full_content, gvisible, gout, gcontacts>>

\* the stream raises while it is iterated
StreamRaises ==
    /\ gpc = "stream"
    /\ \E e \in ErrorTexts : OnException(e)
    /\ UNCHANGED <<gcfg, gpos, gfilter, full_content, tool_calls_data, gvisible, gcontacts>>

\* the stream is exhausted: finalize, the remaining fragment, the final response
StreamEnds ==
    /\ gpc = "stream"
    /\ gpos = Len(gcfg.text)
    /\ LET fin == finalize(gfilter)
           withRemaining ==
               IF ~gcfg.show_thinking /\ fin.remaining # <<>>
               THEN Yielded(gout, create_delta(fin.remaining)) ELSE gout
       IN  /\ gvisible' = gvisible \o fin.remaining
           /\ gfilter' = [gfilter EXCEPT
                             !.buffer = <<>>,
                             !.clean_content = IF gfilter.in_thinking THEN @ ELSE @ \o gfilter.buffer,
                             !.thinking_content = IF gfilter.in_thinking THEN @ \o gfilter.buffer ELSE @]
           /\ gout' = Yielded(withRemaining,
                         LlmResponse(FALSE, <<>>, fin.clean_content, fin.thinking_content,
                                     tool_calls_data, None))
    /\ gpc' = "done"
    /\ UNCHANGED <<gcfg, gpos, full_content, tool_calls_data, gcontacts>>

memVars == <<memories, mlast, spc, scall, sdict, di_used, spos, matched, sresult, sseen, squiet, sinterleaved>>

\* -------------------------------------------------------------- InMemoryService

\* _user_key
user_key(app_name, user_id) == app_name \o "/" \o user_id

MemoryApps == {"a", "a/b"}
MemoryUsers == {"b/c", "c"}

\* texts are sequences of characters; a CJK character is written by its code point
Hanzi ==
    {"u7528", "u6237", "u559c", "u6b22", "u7f16", "u7a0b", "u6b63", "u5728", "u5b66",
     "u4e60", "u673a", "u5668"}
Letters == {"P", "p", "y", "t", "h", "o", "n", "j", "a", "v"}

\* str.lower, character by character
lower(c) == IF c = "P" THEN "p" ELSE c

\* the alternative of [\u4e00-\u9fff]+|[a-zA-Z]+ a character belongs to
Script(c) == IF c \in Hanzi THEN "hanzi" ELSE IF c \in Letters THEN "letters" ELSE "none"

\* re.findall over the rest of the text, run being the match under way: a match
\* is a longest run of characters of one alternative
RECURSIVE words_from(_, _)
words_from(text, run) ==
    IF text = <<>> THEN (IF run = <<>> THEN {} ELSE {run})
    ELSE LET c == lower(Head(text))
         IN  IF Script(c) = "none"
             THEN (IF run = <<>> THEN {} ELSE {run}) \cup words_from(Tail(text), <<>>)
             ELSE IF run # <<>> /\ Script(run[1]) # Script(c)
             THEN {run} \cup words_from(Tail(text), <<c>>)
             ELSE words_from(Tail(text), Append(run, c))

\* _extract_words
extract_words(text) == words_from(text, <<>>)

\* the texts of the entries and queries
TextPython == <<"P", "y", "t", "h", "o", "n">>
TextLowerPython == <<"p", "y", "t", "h", "o", "n">>
TextJava == <<"j", "a", "v", "a">>
TextPythonJava == TextPython \o <<" ">> \o TextJava
TextJava42 == TextJava \o <<" ", "4", "2">>
\* "用户喜欢Python编程"
TextLikesPython == <<"u7528", "u6237", "u559c", "u6b22">> \o TextPython \o <<"u7f16", "u7a0b">>
\* "用户正在学习机器学习"
TextLearnsML ==
    <<"u7528", "u6237", "u6b63", "u5728", "u5b66", "u4e60", "u673a", "u5668", "u5b66", "u4e60">>
\* "Python 机器学习"
TextPythonML == TextPython \o <<" ", "u673a", "u5668", "u5b66", "u4e60">>

MemoryEntry(id, app_name, user_id, session_id, memory_type, content, timestamp) ==
    [id |-> id, app_name |-> app_name, user_id |-> user_id, session_id |-> session_id,
     memory_type |-> memory_type, content |-> content, timestamp |-> timestamp]

\* the entries the callers add; an entry without id gets a uuid4 of its own,
\* which is the id written here
EntryPool ==
    {MemoryEntry("m1", "a", "b/c", "s1", "short_term", TextPythonJava, 1),
     MemoryEntry("m2", "a/b", "c", "s1", "long_term", TextLowerPython, 2),
     MemoryEntry("m3", "a", "b/c", "s2", "short_term", TextJava42, 3)}

MemoryIds == {"m1", "m2", "m3", "m9"}

\* search calls: score_threshold is the fraction num / den
SearchCall(query, app_name, user_id, session_id, memory_type, limit, num, den) ==
    [query |-> query, app_name |-> app_name, user_id |-> user_id,
     session_id |-> session_id, memory_type |-> memory_type, limit |-> limit,
     score_threshold |-> [num |-> num, den |-> den]]

SearchCalls ==
    {SearchCall(TextPythonJava, "a", "b/c", None, None, 10, 0, 1),
     SearchCall(TextPythonJava, "a", "b/c", None, None, 1, 0, 1),
     SearchCall(TextPythonJava, "a", "b/c", None, None, 0, 0, 1),
     SearchCall(TextPythonJava, "a", "b/c", None, None, 10, 1, 1),
     SearchCall(TextJava, "a", "b/c", "s2", None, 10, 0, 1),
     SearchCall(TextJava, "a", "b/c", None, "short_term", 10, 1, 2),
     SearchCall(<<"4", "2">>, "a", "b/c", None, None, 10, 0, 1),
     SearchCall(TextLowerPython, "a/b", "c", None, None, 10, 0, 1),
     SearchCall(TextLowerPython, "a", "c", None, None, 10, 0, 1)}

\* the two entries and the two queries of the keyword-search example
KeywordEntries ==
    {MemoryEntry("k1", "a", "c", "s1", "long_term", TextLikesPython, 1),
     MemoryEntry("k2", "a", "c", "s1", "long_term", TextLearnsML, 2)}

KeywordCalls ==
    {SearchCall(TextPythonML, "a", "c", None, None, 10, 1, 2),
     SearchCall(TextPython, "a", "c", None, None, 10, 0, 1)}

ClearCalls ==
    [app_name : MemoryApps, user_id : MemoryUsers,
     session_id : {None, "s1"}, memory_type : {None, "short_term"}]

NoSearch == SearchCall(<<>>, "a", "c", None, None, 0, 0, 1)
NoDict == [key |-> None, attached |-> FALSE, entries |-> <<>>]
NoSearchResult == [entries |-> <<>>, total_count |-> -1]
NoMemoryCall == [op |-> "none", app_name |-> None, user_id |-> None, id |-> None, deleted |-> 0]

MemoryInit ==
    /\ memories = <<>>
    /\ mlast = NoMemoryCall
    /\ spc = "idle"
    /\ scall = NoSearch
    /\ sdict = NoDict
    /\ di_used = 0
    /\ spos = 0
    /\ matched = <<>>
    /\ sresult = NoSearchResult
    /\ sseen = {}
    /\ squiet = TRUE
    /\ sinterleaved = 0

\* self._memories.get(user_key, {})
StoredUnder(key) == IF key \in DOMAIN memories THEN memories[key] ELSE <<>>

\* a sequence without the entries that satisfy gone
RECURSIVE Without(_, _)
Without(entries, gone) ==
    IF entries = <<>> THEN <<>>
    ELSE (IF Head(entries) \in gone THEN <<>> ELSE <<Head(entries)>>)
         \o Without(Tail(entries), gone)

\* the entries of the search's (app_name, user_id) a store holds
OfSearchedUser(store) ==
    {e \in UNION {Range(store[k]) : k \in DOMAIN store} :
        e.app_name = scall.app_name /\ e.user_id = scall.user_id}

\* another thread may act: always before and after a search, and a bounded
\* number of times while one is iterating
OtherThreadMayAct ==
    /\ spc \in {"idle", "iter"}
    /\ spc = "iter" => sinterleaved < MaxInterleaved

\* what a call of another thread leaves of the search's bookkeeping
Interleaved(store) ==
    /\ sinterleaved' = IF spc = "iter" THEN sinterleaved + 1 ELSE sinterleaved
    /\ squiet' = (squiet /\ store = memories)
    /\ sseen' = IF spc = "iter" THEN sseen \cup OfSearchedUser(store) ELSE sseen
    /\ UNCHANGED <<spc, scall, di_used, spos, matched, sresult>>

\* add: under the lock, self._memories[user_key][entry.id] = entry
add(entry) ==
    /\ OtherThreadMayAct
    /\ LET key == user_key(entry.app_name, entry.user_id)
           old == StoredUnder(key)
           new == IF \E k \in DOMAIN old : old[k].id = entry.id
                  THEN [k \in DOMAIN old |-> IF old[k].id = entry.id THEN entry ELSE old[k]]
                  ELSE Append(old, entry)
           store == (key :> new) @@ memories
       IN  /\ memories' = store
           /\ Interleaved(store)
    /\ mlast' = [op |-> "add", app_name |-> entry.app_name, user_id |-> entry.user_id,
                 id |-> entry.id, deleted |-> 0]
    /\ UNCHANGED sdict

\* get: under the lock, the first dict that holds memory_id
get(memory_id) ==
    /\ OtherThreadMayAct
    /\ LET held == {e \in UNION {Range(memories[k]) : k \in DOMAIN memories} :
                       e.id = memory_id}
       IN  mlast' = [op |-> "get", app_name |-> None, user_id |-> None,
                     id |-> IF held = {} THEN None ELSE (CHOOSE e \in held : TRUE).id,
                     deleted |-> 0]
    /\ Interleaved(memories)
    /\ UNCHANGED <<memories, sdict>>

\* the entries a clear call selects
Selected(entries, call) ==
    {e \in Range(entries) :
        /\ call.session_id # None => e.session_id = call.session_id
        /\ call.memory_type # None => e.memory_type = call.memory_type}

\* clear: under the lock; without filters the user's dict is dropped from
\* self._memories, with filters the selected ids are deleted from it
clear(call) ==
    /\ OtherThreadMayAct
    /\ LET key == user_key(call.app_name, call.user_id)
           whole == call.session_id = None /\ call.memory_type = None
           store ==
               IF key \notin DOMAIN memories THEN memories
               ELSE IF whole THEN [k \in DOMAIN memories \ {key} |-> memories[k]]
               ELSE [memories EXCEPT ![key] = Without(@, Selected(@, call))]
           deleted ==
               IF key \notin DOMAIN memories THEN 0
               ELSE IF whole THEN Len(memories[key])
               ELSE Cardinality(Selected(memories[key], call))
       IN  /\ memories' = store
           /\ Interleaved(store)
           /\ sdict' = IF sdict.attached /\ sdict.key = key /\ key \in DOMAIN memories /\ whole
                       THEN [sdict EXCEPT !.attached = FALSE, !.entries = memories[key]]
                       ELSE sdict
           /\ mlast' = [op |-> "clear", app_name |-> call.app_name,
                        user_id |-> call.user_id, id |-> None,
                        deleted |-> deleted]

\* the entries of the dict the search holds, as they are now
DictEntries == IF sdict.attached THEN StoredUnder(sdict.key) ELSE sdict.entries

\* search up to the for loop: the dict is taken under the lock, a query without
\* words returns at once, else the iteration over the dict's values starts
SearchBegin(call) ==
    /\ spc = "idle"
    /\ scall' = call
    /\ LET key == user_key(call.app_name, call.user_id)
       IN  /\ sdict' = [key |-> key, attached |-> key \in DOMAIN memories, entries |-> <<>>]
           /\ di_used' = Len(StoredUnder(key))
    /\ spos' = 0
    /\ matched' = <<>>
    /\ squiet' = TRUE
    /\ sinterleaved' = 0
    /\ sseen' = {e \in UNION {Range(memories[k]) : k \in DOMAIN memories} :
                    e.app_name = call.app_name /\ e.user_id = call.user_id}
    /\ IF extract_words(call.query) = {}
       THEN spc' = "done" /\ sresult' = [entries |-> <<>>, total_count |-> 0]
       ELSE spc' = "iter" /\ sresult' = NoSearchResult
    /\ UNCHANGED <<memories, mlast>>

\* the body of the for loop for one entry: filters, words, score, threshold
visit(call, list, entry) ==
    LET query_words == extract_words(call.query)
        content_words == extract_words(entry.content)
        matches == query_words \cap content_words
    IN  IF call.session_id # None /\ entry.session_id # call.session_id THEN list
        ELSE IF call.memory_type # None /\ entry.memory_type # call.memory_type THEN list
        ELSE IF content_words = {} THEN list
        ELSE IF matches # {}
                /\ Cardinality(matches) * call.score_threshold.den
                      >= call.score_threshold.num * Cardinality(query_words)
             THEN Append(list, [score |-> Cardinality(matches), entry |-> entry])
             ELSE list

\* the loop body in the searching thread
Visit(entry) == visit(scall, matched, entry)

\* x sorts before y by the key (-score, -timestamp)
SortsBefore(x, y) ==
    \/ x.score > y.score
    \/ x.score = y.score /\ x.entry.timestamp > y.entry.timestamp

\* list.sort: stable
RECURSIVE sort(_)
sort(list) ==
    IF list = <<>> THEN <<>>
    ELSE LET sorted == sort(Take(list, Len(list) - 1))
             x == list[Len(list)]
             before == {k \in DOMAIN sorted : ~SortsBefore(x, sorted[k])}
         IN  Take(sorted, Cardinality(before)) \o <<x>> \o Drop(sorted, Cardinality(before))

\* the for loop asks the dict iterator for the next value: RuntimeError when the
\* dict's size has changed, the loop body for the next entry, or, the values
\* exhausted, the sort, the cut to limit and the return
SearchNext ==
    /\ spc = "iter"
    /\ IF Len(DictEntries) # di_used
       THEN /\ spc' = "raised"
            /\ UNCHANGED <<matched, spos, sresult>>
       ELSE IF spos < Len(DictEntries)
       THEN /\ matched' = Visit(DictEntries[spos + 1])
            /\ spos' = spos + 1
            /\ UNCHANGED <<spc, sresult>>
       ELSE /\ spc' = "done"
            /\ sresult' = [entries |-> [k \in 1..(IF scall.limit < Len(matched) THEN scall.limit
                                                   ELSE Len(matched)) |-> sort(matched)[k].entry],
                           total_count |-> Len(matched)]
            /\ UNCHANGED <<matched, spos>>
    /\ UNCHANGED <<memories, mlast, scall, sdict, di_used, sseen, squiet, sinterleaved>>

mgrVars == <<short_term, long_term, same_service, config, mgr_call, mgr_result>>

\* ---------------------------------------------------------------- MemoryManager

\* the for loop of InMemoryService.search over the dict's values
RECURSIVE visit_all(_, _)
visit_all(call, entries) ==
    IF entries = <<>> THEN <<>>
    ELSE visit(call, visit_all(call, Take(entries, Len(entries) - 1)), entries[Len(entries)])

\* InMemoryService.search, run undisturbed on a store
search(store, call) ==
    LET key == user_key(call.app_name, call.user_id)
        user_memories == IF key \in DOMAIN store THEN store[key] ELSE <<>>
        list == IF extract_words(call.query) = {} THEN <<>> ELSE visit_all(call, user_memories)
        cut == IF call.limit < Len(list) THEN call.limit ELSE Len(list)
    IN  [entries |-> [k \in 1..cut |-> sort(list)[k].entry], total_count |-> Len(list)]

\* InMemoryService.add on a store
added(store, entry) ==
    LET key == user_key(entry.app_name, entry.user_id)
        old == IF key \in DOMAIN store THEN store[key] ELSE <<>>
        new == IF \E k \in DOMAIN old : old[k].id = entry.id
               THEN [k \in DOMAIN old |-> IF old[k].id = entry.id THEN entry ELSE old[k]]
               ELSE Append(old, entry)
    IN  (key :> new) @@ store

\* MemoryConfig: the limits of the two tiers and the threshold num / den
MemoryConfig(short_term_enabled, short_term_limit, long_term_enabled, long_term_limit, num, den) ==
    [short_term_enabled |-> short_term_enabled, short_term_limit |-> short_term_limit,
     long_term_enabled |-> long_term_enabled, long_term_limit |-> long_term_limit,
     score_threshold |-> [num |-> num, den |-> den]]

\* the default configuration and two others
MemoryConfigs ==
    {MemoryConfig(TRUE, 20, TRUE, 10, 3, 10),
     MemoryConfig(TRUE, 1, TRUE, 1, 3, 10),
     MemoryConfig(TRUE, 20, FALSE, 10, 3, 10)}

\* the entries the manager's callers store; t2 and t3 carry one timestamp
ManagerEntries ==
    {MemoryEntry("t1", "a", "c", "s1", "short_term", TextPython, 1),
     MemoryEntry("t2", "a", "c", "s1", "long_term", TextPythonJava, 2),
     MemoryEntry("t3", "a", "c", "s2", "short_term", TextLowerPython, 2)}

SearchArgs(session_id, memory_type, limit) ==
    [query |-> TextPython, app_name |-> "a", user_id |-> "c",
     session_id |-> session_id, memory_type |-> memory_type, limit |-> limit]

ManagerSearches ==
    {SearchArgs(None, None, 10), SearchArgs(None, None, 1),
     SearchArgs(None, None, 0), SearchArgs("s1", None, 10),
     SearchArgs(None, "short_term", 10), SearchArgs(None, "long_term", 10),
     SearchArgs(None, "event", 10)}

NoManagerCall == [op |-> "none", query |-> <<>>, app_name |-> None, user_id |-> None,
                  session_id |-> None, memory_type |-> None, limit |-> 0]

\* __init__: long_term defaults to the short-term service itself
ManagerInit ==
    /\ short_term = <<>>
    /\ long_term = <<>>
    /\ same_service \in BOOLEAN
    /\ config \in MemoryConfigs
    /\ mgr_call = NoManagerCall
    /\ mgr_result = NoSearchResult

ManagerQuiet ==
    /\ short_term = <<>>
    /\ long_term = <<>>
    /\ same_service = FALSE
    /\ config = MemoryConfig(TRUE, 20, TRUE, 10, 3, 10)
    /\ mgr_call = NoManagerCall
    /\ mgr_result = NoSearchResult

\* the ids the two services hold
ManagerIds ==
    {e.id : e \in UNION ({Range(short_term[k]) : k \in DOMAIN short_term}
                         \cup {Range(long_term[k]) : k \in DOMAIN long_term})}

\* the store of tier after entry was added to service; one service under two
\* names changes under both
TierAfter(tier, service, entry) ==
    LET store == IF tier = "short" THEN short_term ELSE long_term
    IN  IF tier = service \/ same_service THEN added(store, entry) ELSE store

\* MemoryManager.add: a new entry (its id is a fresh uuid4) goes to the
\* long-term service when its type is LONG_TERM, else to the short-term one
ManagerAdd(entry) ==
    /\ entry.id \notin ManagerIds
    /\ LET service == IF entry.memory_type = "long_term" THEN "long" ELSE "short"
       IN  /\ short_term' = TierAfter("short", service, entry)
           /\ long_term' = TierAfter("long", service, entry)
    /\ mgr_call' = [NoManagerCall EXCEPT !.op = "add"]
    /\ UNCHANGED <<same_service, config, mgr_result>>

\* a caller adds an entry to one of the services directly
ServiceAdd(service, entry) ==
    /\ short_term' = TierAfter("short", service, entry)
    /\ long_term' = TierAfter("long", service, entry)
    /\ mgr_call' = [NoManagerCall EXCEPT !.op = "service_add"]
    /\ UNCHANGED <<same_service, config, mgr_result>>

\* the search of the short-term service, or nothing
short_result(call) ==
    IF config.short_term_enabled /\ call.memory_type \in {None, "short_term", "event"}
    THEN search(short_term,
                [query |-> call.query, app_name |-> call.app_name, user_id |-> call.user_id,
                 session_id |-> call.session_id,
                 memory_type |-> IF call.memory_type # "long_term" THEN call.memory_type ELSE None,
                 limit |-> config.short_term_limit,
                 score_threshold |-> config.score_threshold]).entries
    ELSE <<>>

\* the search of the long-term service, when it is another service
long_result(call) ==
    IF config.long_term_enabled /\ ~same_service /\ call.memory_type \in {None, "long_term"}
    THEN search(long_term,
                [query |-> call.query, app_name |-> call.app_name, user_id |-> call.user_id,
                 session_id |-> None,
                 memory_type |-> IF call.memory_type = None THEN "long_term" ELSE call.memory_type,
                 limit |-> config.long_term_limit,
                 score_threshold |-> config.score_threshold]).entries
    ELSE <<>>

\* unique_entries without the de-duplication
unique_entries_all(all_entries) == all_entries

\* unique_entries: the first entry of each id, in order
RECURSIVE unique_entries(_)
unique_entries(all_entries) ==
    IF all_entries = <<>> THEN <<>>
    ELSE LET before == unique_entries(Take(all_entries, Len(all_entries) - 1))
             entry == all_entries[Len(all_entries)]
         IN  IF \E k \in DOMAIN before : before[k].id = entry.id
             THEN before ELSE Append(before, entry)

\* list.sort(key=timestamp, reverse=True): stable
RECURSIVE sort_by_timestamp(_)
sort_by_timestamp(list) ==
    IF list = <<>> THEN <<>>
    ELSE LET sorted == sort_by_timestamp(Take(list, Len(list) - 1))
             x == list[Len(list)]
             before == {k \in DOMAIN sorted : sorted[k].timestamp >= x.timestamp}
         IN  Take(sorted, Cardinality(before)) \o <<x>> \o Drop(sorted, Cardinality(before))

\* MemoryManager.search
ManagerSearch(call) ==
    /\ LET all_entries == short_result(call) \o long_result(call)
           sorted == sort_by_timestamp(unique_entries(all_entries))
           cut == IF call.limit < Len(sorted) THEN call.limit ELSE Len(sorted)
       IN  mgr_result' = [entries |-> Take(sorted, cut), total_count |-> Len(sorted)]
    /\ mgr_call' = [op |-> "search", query |-> call.query, app_name |-> call.app_name,
                    user_id |-> call.user_id, session_id |-> call.session_id,
                    memory_type |-> call.memory_type, limit |-> call.limit]
    /\ UNCHANGED <<short_term, long_term, same_service, config>>

\* InMemoryService.clear on a store: without filters the user's dict is
\* dropped, with filters the selected ids are deleted from it
cleared(store, call) ==
    LET key == user_key(call.app_name, call.user_id)
    IN  IF key \notin DOMAIN store THEN store
        ELSE IF call.session_id = None /\ call.memory_type = None
             THEN [k \in DOMAIN store \ {key} |-> store[k]]
             ELSE [store EXCEPT ![key] = Without(@, Selected(@, call))]

\* one entry of each MemoryType, all stored under session s1
TierEntries ==
    {MemoryEntry("e1", "a", "c", "s1", "short_term", TextPython, 1),
     MemoryEntry("e2", "a", "c", "s1", "long_term", TextPythonJava, 2),
     MemoryEntry("e3", "a", "c", "s1", "entity", TextLowerPython, 3),
     MemoryEntry("e4", "a", "c", "s1", "event", TextPython, 4)}

MemoryTypes == {"short_term", "long_term", "entity", "event"}

\* searches and clears by memory type, and searches from another session
TierCalls ==
    {SearchArgs(None, memory_type, 10) : memory_type \in MemoryTypes \cup {None}}
    \cup {SearchArgs("s2", None, 10), SearchArgs("s2", "long_term", 10)}

\* MemoryManager.clear: the short-term service for the types it keeps, the
\* long-term one when it is another service
ManagerClear(call) ==
    /\ LET short == IF call.memory_type \in {None, "short_term", "event"}
                    THEN cleared(short_term,
                                 [app_name |-> call.app_name, user_id |-> call.user_id,
                                  session_id |-> call.session_id,
                                  memory_type |-> call.memory_type])
                    ELSE short_term
           long == IF ~same_service /\ call.memory_type \in {None, "long_term"}
                   THEN cleared(long_term,
                                [app_name |-> call.app_name, user_id |-> call.user_id,
                                 session_id |-> None,
                                 memory_type |-> IF call.memory_type = None
                                                 THEN "long_term" ELSE call.memory_type])
                   ELSE long_term
       IN  /\ short_term' = short
           /\ long_term' = IF same_service THEN short ELSE long
    /\ mgr_call' = [op |-> "clear", query |-> <<>>, app_name |-> call.app_name,
                    user_id |-> call.user_id, session_id |-> call.session_id,
                    memory_type |-> call.memory_type, limit |-> 0]
    /\ UNCHANGED <<same_service, config, mgr_result>>

mtVars == <<agent_tools, request_tools, mt_store, mt_call>>

\* ------------------------------------------------------------------ memory tools

\* the agent's tools: an ordinary function tool and the two memory tools
ToolLists ==
    {<<>>, <<"echo">>, <<"load_memory">>, <<"preload_memory">>,
     <<"echo", "preload_memory">>, <<"preload_memory", "load_memory">>}

\* is_preprocessing, the class attribute: True on PreloadMemoryTool only
is_preprocessing(tool) == tool = "preload_memory"

\* the context argument of a tool: absent (None), or a MemoryToolContext with or
\* without a memory service, for app "a" and user "c"
Context(given, has_service, user_query) ==
    [given |-> given, has_service |-> has_service, user_query |-> user_query]

NoContext == Context(FALSE, FALSE, <<>>)

Contexts ==
    {NoContext} \cup
    {Context(TRUE, s, q) : s \in BOOLEAN, q \in {<<>>, TextPython, TextJava}}

ToolQueries == {<<>>, TextPython}

\* what a tool call gave: a raised exception, None, an {"error": ...} dict, the
\* preload text or the {"found": ..., "memories": ...} dict
Result(kind, error, entries) == [kind |-> kind, error |-> error, entries |-> entries]

NoToolCall ==
    [op |-> "none", name |-> None, context |-> NoContext, query |-> <<>>,
     executed |-> FALSE, result |-> Result("none", None, <<>>)]

ToolsInit ==
    /\ agent_tools \in ToolLists
    /\ request_tools = <<>>
    /\ mt_store = <<>>
    /\ mt_call = NoToolCall

ToolsQuiet ==
    /\ agent_tools = <<>>
    /\ request_tools = <<>>
    /\ mt_store = <<>>
    /\ mt_call = NoToolCall

\* MemoryToolContext.search_memory: no session filter, the service's defaults
search_memory(context, query) ==
    IF ~context.has_service THEN [entries |-> <<>>, total_count |-> 0]
    ELSE search(mt_store, SearchCall(query, "a", "c", None, None, 10, 0, 1))

\* PreloadMemoryTool.process_llm_request: context.user_query is read first
process_llm_request(context) ==
    IF ~context.given THEN Result("raised", "AttributeError", <<>>)
    ELSE IF context.user_query = <<>> THEN Result("none", None, <<>>)
    ELSE LET result == search_memory(context, context.user_query)
         IN  IF result.entries = <<>> THEN Result("none", None, <<>>)
             ELSE Result("text", None, result.entries)

\* PreloadMemoryTool.run_async
PreloadMemoryTool_run_async(query, context) ==
    Result("error", "This tool is for internal use only", <<>>)

\* LoadMemoryTool.run_async
LoadMemoryTool_run_async(query, context) ==
    IF query = <<>> THEN Result("error", "query is required", <<>>)
    ELSE IF ~context.given THEN Result("error", "Memory context not available", <<>>)
    ELSE Result("found", None, search_memory(context, query).entries)

\* the run_async of the tool of a name
run_async(tool, query, context) ==
    IF tool = "preload_memory" THEN PreloadMemoryTool_run_async(query, context)
    ELSE IF tool = "load_memory" THEN LoadMemoryTool_run_async(query, context)
    ELSE Result("found", None, <<>>)

\* BaseFlow.find_tool: the first tool of the name, or None
BaseFlow_find_tool(tools, tool_name) ==
    IF \E k \in DOMAIN tools : tools[k] = tool_name THEN tool_name ELSE None

\* a caller stores an entry in the memory service
ServiceStores(entry) ==
    /\ mt_store' = added(mt_store, entry)
    /\ mt_call' = [NoToolCall EXCEPT !.op = "add"]
    /\ UNCHANGED <<agent_tools, request_tools>>

\* BaseFlow.build_request: a declaration for every tool of agent.tools
BuildRequest ==
    /\ request_tools' = agent_tools
    /\ mt_call' = [NoToolCall EXCEPT !.op = "build_request"]
    /\ UNCHANGED <<agent_tools, mt_store>>

\* SimpleFlow._execute_tool_stream_async for a function call of the model:
\* find_tool, then tool.run_async(call_args, None)
ExecuteTool(call_name, query) ==
    /\ LET tool == BaseFlow_find_tool(agent_tools, call_name)
       IN  mt_call' = [op |-> "dispatch", name |-> call_name, context |-> NoContext,
                       query |-> query, executed |-> tool # None,
                       result |-> IF tool = None THEN Result("none", None, <<>>)
                                  ELSE run_async(tool, query, NoContext)]
    /\ UNCHANGED <<agent_tools, request_tools, mt_store>>

\* a caller that has a context, or none, runs the preload before a request
Preload(context) ==
    /\ mt_call' = [op |-> "process_llm_request", name |-> "preload_memory",
                   context |-> context, query |-> context.user_query, executed |-> TRUE,
                   result |-> process_llm_request(context)]
    /\ UNCHANGED <<agent_tools, request_tools, mt_store>>

\* a caller that has a context, or none, runs the load tool
Load(query, context) ==
    /\ mt_call' = [op |-> "run_async", name |-> "load_memory", context |-> context,
                   query |-> query, executed |-> TRUE,
                   result |-> LoadMemoryTool_run_async(query, context)]
    /\ UNCHANGED <<agent_tools, request_tools, mt_store>>

sseVars == <<sse_pc, sse_events, sse_raised, sse_lines>>

\* ---------------------------------------------------------------- /api/chat/stream

\* the Events a turn can produce, by their type
SseEvents == {"model_response_delta", "tool_call", "model_response"}

\* f"data: {data}\n\n" with the Event's dict as JSON
EventLine(event) == [data |-> "event", event |-> event]
\* "data: [DONE]\n\n"
DoneLine == [data |-> "[DONE]", event |-> None]
\* f"data: {error_data}\n\n" with {"error": str(e)} as JSON
ErrorLine == [data |-> "error", event |-> None]

SseInit ==
    /\ sse_pc = "idle"
    /\ sse_events = <<>>
    /\ sse_raised = FALSE
    /\ sse_lines = <<>>

\* chat_stream: the session is looked up or created and the response starts
ChatStream ==
    /\ sse_pc \in {"idle", "closed"}
    /\ sse_pc' = "streaming"
    /\ sse_events' = <<>>
    /\ sse_raised' = FALSE
    /\ sse_lines' = <<>>

\* the runner yields an Event: one data line
RunnerYields(event) ==
    /\ sse_pc = "streaming"
    /\ Len(sse_events) < MaxSseEvents
    /\ sse_events' = Append(sse_events, event)
    /\ sse_lines' = Append(sse_lines, EventLine(event))
    /\ UNCHANGED <<sse_pc, sse_raised>>

\* the runner's generator is exhausted: the end marker, and the generator ends
RunnerExhausted ==
    /\ sse_pc = "streaming"
    /\ sse_lines' = Append(sse_lines, DoneLine)
    /\ sse_pc' = "closed"
    /\ UNCHANGED <<sse_events, sse_raised>>

\* the runner (or json.dumps) raises: the except clause sends the error line,
\* and the generator ends
RunnerRaisesInStream ==
    /\ sse_pc = "streaming"
    /\ sse_lines' = Append(sse_lines, ErrorLine)
    /\ sse_raised' = TRUE
    /\ sse_pc' = "closed"
    /\ UNCHANGED sse_events

mxVars == <<mx_pc, mx_reply, mx_response>>

\* ---------------------------------------------------------- tool-call markup

\* contents are sequences of tokens: a start tag <tag> or <tag name="name">, an
\* end tag </tag>, or characters outside tags
StartTag(tag, name) == [kind |-> "start", tag |-> tag, name |-> name]
EndTag(tag) == [kind |-> "end", tag |-> tag, name |-> None]
Chars(text) == [kind |-> "chars", tag |-> None, name |-> text]

\* the pieces of the replies: plain text, a bare <invoke name=...> block, such a
\* block inside <minimax:tool_call>, and a bare nested-tag block
PieceText == <<Chars("hi"), Chars(" ")>>
PieceInvoke ==
    <<StartTag("invoke", "get_weather"), StartTag("parameter", "city"), Chars("Beijing"),
      EndTag("parameter"), EndTag("invoke")>>
PieceWrapped ==
    <<StartTag("minimax:tool_call", None), StartTag("invoke", "web_search"),
      StartTag("parameter", "q"), Chars(" "), Chars("cats"), EndTag("parameter"),
      EndTag("invoke"), EndTag("minimax:tool_call")>>
PieceNested ==
    <<StartTag("invoke", None), StartTag("get_time", None), StartTag("zone", None),
      Chars("utc"), EndTag("zone"), EndTag("get_time"), EndTag("invoke")>>

MarkupPieces == {PieceText, PieceInvoke, PieceWrapped, PieceNested}

\* FunctionCall; the id f"call_minimax_{index}" is the prefix and the index
FunctionCall(prefix, index, name, args) ==
    [id |-> [prefix |-> prefix, index |-> index], name |-> name, args |-> args]

\* message.tool_calls of the replies: none, or one standard tool call
StandardToolCalls ==
    {<<>>, <<FunctionCall("call_", 7, "get_weather", [p \in {"city"} |-> <<Chars("Paris")>>])>>}

MarkupReplies ==
    [pieces : UNION {[1..n -> MarkupPieces] : n \in 0..MaxMarkupPieces},
     tool_calls : StandardToolCalls]

\* str.strip on tokens
RECURSIVE strip_tokens(_)
strip_tokens(s) ==
    IF s = <<>> THEN s
    ELSE IF Head(s) = Chars(" ") THEN strip_tokens(Tail(s))
    ELSE IF s[Len(s)] = Chars(" ") THEN strip_tokens(Take(s, Len(s) - 1))
    ELSE s

\* the start and end tags of the three patterns <minimax:tool_call>(.*?)</minimax:tool_call>,
\* <invoke[^>]*>(.*?)</invoke> and <parameter\s+name="([^"]+)"[^>]*>(.*?)</parameter>
StartsPattern(pattern, token) ==
    /\ token.kind = "start"
    /\ token.tag = pattern
    /\ pattern = "minimax:tool_call" => token.name = None
    /\ pattern = "parameter" => token.name # None

EndsPattern(pattern, token) == token = EndTag(pattern)

\* the matches of a pattern from position from on, left to right, each ending at
\* the first end tag after its start: [start, end] positions
RECURSIVE spans(_, _, _)
spans(pattern, s, from) ==
    LET starts == {i \in from..Len(s) : StartsPattern(pattern, s[i])}
    IN  IF starts = {} THEN <<>>
        ELSE LET start == CHOOSE i \in starts : \A j \in starts : i <= j
                 ends == {j \in (start + 1)..Len(s) : EndsPattern(pattern, s[j])}
             IN  IF ends = {} THEN <<>>
                 ELSE LET end == CHOOSE i \in ends : \A j \in ends : i <= j
                      IN  <<[start |-> start, end |-> end]>> \o spans(pattern, s, end + 1)

\* re.findall: the group (.*?) of every match
findall(pattern, s) ==
    [k \in DOMAIN spans(pattern, s, 1) |->
        SubSeq(s, spans(pattern, s, 1)[k].start + 1, spans(pattern, s, 1)[k].end - 1)]

\* re.sub(pattern, '', s)
sub(pattern, s) ==
    LET inside == {i \in DOMAIN s : \E k \in DOMAIN spans(pattern, s, 1) :
                        spans(pattern, s, 1)[k].start <= i /\ i <= spans(pattern, s, 1)[k].end}
    IN  [k \in 1..Cardinality(DOMAIN s \ inside) |->
            s[CHOOSE i \in DOMAIN s \ inside :
                  Cardinality({j \in DOMAIN s \ inside : j < i}) = k - 1]]

\* the matches of <(\w+)>(.*?)</\1> from position from on: a start tag without
\* attributes and the first end tag of its name after it
RECURSIVE tag_spans(_, _)
tag_spans(s, from) ==
    LET starts == {i \in from..Len(s) :
                      /\ s[i].kind = "start" /\ s[i].name = None
                      /\ s[i].tag # "minimax:tool_call"
                      /\ \E j \in (i + 1)..Len(s) : s[j] = EndTag(s[i].tag)}
    IN  IF starts = {} THEN <<>>
        ELSE LET start == CHOOSE i \in starts : \A j \in starts : i <= j
                 ends == {j \in (start + 1)..Len(s) : s[j] = EndTag(s[start].tag)}
                 end == CHOOSE i \in ends : \A j \in ends : i <= j
             IN  <<[start |-> start, end |-> end]>> \o tag_spans(s, end + 1)

\* a dict made of (name, value) pairs, a later pair replacing an earlier one
DictOf(names, values) ==
    [n \in {names[k] : k \in DOMAIN names} |->
        values[CHOOSE k \in DOMAIN names :
                  names[k] = n /\ \A j \in DOMAIN names : names[j] = n => j <= k]]

\* the dict of the nested tags of a text, values stripped
TagArgs(s) ==
    DictOf([k \in DOMAIN tag_spans(s, 1) |-> s[tag_spans(s, 1)[k].start].tag],
           [k \in DOMAIN tag_spans(s, 1) |->
               strip_tokens(SubSeq(s, tag_spans(s, 1)[k].start + 1, tag_spans(s, 1)[k].end - 1))])

\* the special mapping of transfer_to_agent: agent becomes agent_name, args is
\* unwrapped into its nested tags or becomes reason
TransferArgs(args) ==
    LET renamed == [n \in (DOMAIN args \ {"agent"}) \cup
                          (IF "agent" \in DOMAIN args THEN {"agent_name"} ELSE {}) |->
                       IF n = "agent_name" /\ "agent" \in DOMAIN args THEN args["agent"]
                       ELSE args[n]]
    IN  IF "args" \notin DOMAIN renamed THEN renamed
        ELSE LET rest == [n \in DOMAIN renamed \ {"args"} |-> renamed[n]]
                 nested == TagArgs(renamed["args"])
             IN  IF DOMAIN nested # {} THEN nested @@ rest
                 ELSE ("reason" :> strip_tokens(renamed["args"])) @@ rest

NoFunctionCall == FunctionCall("none", 0, None, <<>>)

\* _parse_invoke_block
parse_invoke_block(block, index) ==
    LET named == {i \in DOMAIN block :
                     block[i].kind = "start" /\ block[i].tag = "invoke" /\ block[i].name # None}
        params == spans("parameter", block, 1)
        tags == tag_spans(block, 1)
    IN  IF named # {}
        THEN FunctionCall("call_minimax_", index,
                          block[CHOOSE i \in named : \A j \in named : i <= j].name,
                          DictOf([k \in DOMAIN params |-> block[params[k].start].name],
                                 [k \in DOMAIN params |->
                                     strip_tokens(SubSeq(block, params[k].start + 1,
                                                         params[k].end - 1))]))
        ELSE IF tags # <<>>
        THEN LET func_name == block[tags[1].start].tag
                 args == TagArgs(SubSeq(block, tags[1].start + 1, tags[1].end - 1))
             IN  FunctionCall("call_minimax_", index, func_name,
                              IF func_name = "transfer_to_agent" THEN TransferArgs(args)
                              ELSE args)
        ELSE NoFunctionCall

\* one of the two for loops of _parse_minimax_tool_calls over the blocks found
RECURSIVE parse_blocks(_, _)
parse_blocks(blocks, function_calls) ==
    IF blocks = <<>> THEN function_calls
    ELSE LET fc == parse_invoke_block(Head(blocks), Len(function_calls))
         IN  parse_blocks(Tail(blocks),
                          IF fc.name = None THEN function_calls
                          ELSE Append(function_calls, fc))

\* _parse_minimax_tool_calls: the wrapped blocks, then the <invoke> blocks of
\* what remains
parse_minimax_tool_calls(content) ==
    parse_blocks(findall("invoke", sub("minimax:tool_call", content)),
                 parse_blocks(findall("minimax:tool_call", content), <<>>))

\* _has_xml_tool_calls
has_xml_tool_calls(content) ==
    \E i \in DOMAIN content :
        /\ content[i].kind = "start"
        /\ \/ content[i] = StartTag("minimax:tool_call", None)
           \/ content[i].tag = "invoke"

\* _remove_minimax_tool_calls
remove_minimax_tool_calls(content) ==
    strip_tokens(sub("invoke", sub("minimax:tool_call", content)))

\* _parse_response: content and function_calls of the LlmResponse; the replies
\* hold no <think> span, for which _extract_thinking is str.strip
parse_response(reply) ==
    LET raw_content == Flatten(reply.pieces)
        xml == reply.tool_calls = <<>> /\ has_xml_tool_calls(raw_content)
    IN  [content |-> IF xml THEN remove_minimax_tool_calls(strip_tokens(raw_content))
                     ELSE strip_tokens(raw_content),
         function_calls |-> IF xml THEN parse_minimax_tool_calls(raw_content)
                            ELSE reply.tool_calls]

NoReply == [pieces |-> <<>>, tool_calls |-> <<>>]
NoParsed == [content |-> <<>>, function_calls |-> <<>>]

MarkupInit ==
    /\ mx_pc = "idle"
    /\ mx_reply = NoReply
    /\ mx_response = NoParsed

\* generate: the endpoint's reply is parsed
ParseResponse ==
    /\ mx_pc = "reply"
    /\ mx_response' = parse_response(mx_reply)
    /\ mx_pc' = "parsed"
    /\ UNCHANGED mx_reply

\* generate is called and the endpoint answers
Reply(reply) ==
    /\ mx_pc \in {"idle", "parsed"}
    /\ mx_reply' = reply
    /\ mx_response' = NoParsed
    /\ mx_pc' = "reply"

histVars == <<hlog>>

\* ------------------------------------------------------------- any event log

\* the texts and tool-call ids of the Events, by their position in the log
LogTexts == <<"t1", "t2", "t3", "t4", "t5">>
LogCallIds == <<"call_1", "call_2", "call_3", "call_4", "call_5">>

\* the id of the last tool call of a log, for the response that answers it
LastCallId(events) ==
    LET calls == {i \in DOMAIN events : events[i].event_type = "tool_call"}
    IN  IF calls = {} THEN "call_unknown"
        ELSE events[CHOOSE i \in calls : \A j \in calls : j <= i].content.id

\* the Events that may come next in a log
NextEvents(events) ==
    LET n == Len(events) + 1
    IN  {Event("user_message", [text |-> LogTexts[n]], n),
         Event("model_response", [text |-> LogTexts[n]], n),
         Event("model_response", [text |-> ""], n),
         Event("tool_call", [id |-> LogCallIds[n], name |-> "get_weather"], n),
         Event("tool_response", [call_id |-> LastCallId(events), result |-> LogTexts[n]], n),
         Event("error", [text |-> LogTexts[n]], n)}

HistoryInit == hlog = <<>>

\* Session.add_event on the log
AddEvent(event) ==
    /\ Len(hlog) < MaxLogLen
    /\ hlog' = Append(hlog, event)

sfVars == <<sf_mode, sf_pc, sf_max, sf_iteration, sf_pending, sf_deltas, sf_events, sf_yielded, sf_taken, sf_writer>>

\* ------------------------------------------------- SimpleFlow and the Session

SimpleFlowModes == {"run", "run_async", "run_stream", "run_stream_async"}

\* run_stream and run_stream_async are generators of Events
Streamed(mode) == mode \in {"run_stream", "run_stream_async"}

\* the final LlmResponse of a model call: a text, a call of a tool the agent
\* has, a call of a tool it has not
SimpleFlowResponses ==
    { [content |-> "text", function_calls |-> <<>>],
      [content |-> "", function_calls |-> <<ToolCall(1, "get_weather")>>],
      [content |-> "", function_calls |-> <<ToolCall(1, "unknown_tool")>>] }

\* the values of max_iterations a flow is made with
SimpleFlowCeilings == {0, 1}

SimpleFlowInit ==
    /\ sf_mode = "none"
    /\ sf_pc = "idle"
    /\ sf_max = 0
    /\ sf_iteration = 0
    /\ sf_pending = <<>>
    /\ sf_deltas = 0
    /\ sf_events = <<>>
    /\ sf_yielded = <<>>
    /\ sf_taken = 0
    /\ sf_writer = "none"

\* the caller records the user's message before it calls the flow
CallerAddsUserMessage ==
    /\ sf_pc = "idle"
    /\ sf_events = <<>>
    /\ sf_events' = Append(sf_events, Event("user_message", [text |-> "hello"], 1))
    /\ sf_writer' = "caller"
    /\ UNCHANGED <<sf_mode, sf_pc, sf_max, sf_iteration, sf_pending, sf_deltas,
                   sf_yielded, sf_taken>>

\* the caller takes the next Event the generator yielded and appends it
\* unless it is a fragment
CallerAddsYielded ==
    /\ sf_taken < Len(sf_yielded)
    /\ sf_taken' = sf_taken + 1
    /\ IF sf_yielded[sf_taken + 1].event_type = "model_response_delta"
       THEN UNCHANGED <<sf_events, sf_writer>>
       ELSE /\ sf_events' = Append(sf_events, sf_yielded[sf_taken + 1])
            /\ sf_writer' = "caller"
    /\ UNCHANGED <<sf_mode, sf_pc, sf_max, sf_iteration, sf_pending, sf_deltas,
                   sf_yielded>>

\* run, run_async, run_stream, run_stream_async: the loop is entered with
\* iteration = 0
SimpleFlowRun(mode, max_iterations) ==
    /\ sf_pc = "idle"
    /\ sf_events # <<>>
    /\ sf_mode' = mode
    /\ sf_max' = max_iterations
    /\ sf_iteration' = 0
    /\ sf_pc' = "loop"
    /\ UNCHANGED <<sf_pending, sf_deltas, sf_events, sf_yielded, sf_taken, sf_writer>>

\* what the four loops and the four _execute_tool methods do with an Event
\* they built: the non-streamed ones call session.add_event, the streamed
\* ones yield it
Emit(event) ==
    IF Streamed(sf_mode)
    THEN /\ sf_yielded' = Append(sf_yielded, event)
         /\ UNCHANGED <<sf_events, sf_writer>>
    ELSE /\ sf_events' = Append(sf_events, event)
         /\ sf_writer' = "flow"
         /\ UNCHANGED sf_yielded

\* the number the next Event of the turn gets
NextStamp == Len(sf_events) + Len(sf_yielded) + 1

\* if iteration >= self.max_iterations: one ERROR Event, the turn ends
SimpleFlowCeiling ==
    /\ sf_pc = "loop"
    /\ AtCeiling(sf_iteration, sf_max)
    /\ Emit(CeilingError(sf_iteration, NextStamp))
    /\ sf_pc' = "done"
    /\ UNCHANGED <<sf_mode, sf_max, sf_iteration, sf_pending, sf_deltas, sf_taken>>

\* after the response: its function calls are executed, or the turn ends
AfterModelResponse(resp) ==
    IF has_function_calls(resp)
    THEN sf_pc' = "tools" /\ sf_pending' = resp.function_calls
    ELSE sf_pc' = "done" /\ sf_pending' = <<>>

\* _reason_act_loop and _reason_act_loop_async below the ceiling:
\* build_request, llm.generate, the MODEL_RESPONSE Event
SimpleFlowGenerate(resp) ==
    /\ sf_pc = "loop"
    /\ ~Streamed(sf_mode)
    /\ ~AtCeiling(sf_iteration, sf_max)
    /\ Emit(Event("model_response", [text |-> resp.content], NextStamp))
    /\ AfterModelResponse(resp)
    /\ UNCHANGED <<sf_mode, sf_max, sf_iteration, sf_deltas, sf_taken>>

\* _reason_act_loop_stream and _reason_act_loop_stream_async below the
\* ceiling: build_request, llm.generate_stream(request)
SimpleFlowGenerateStream(n) ==
    /\ sf_pc = "loop"
    /\ Streamed(sf_mode)
    /\ ~AtCeiling(sf_iteration, sf_max)
    /\ sf_deltas' = n
    /\ sf_pc' = "stream"
    /\ UNCHANGED <<sf_mode, sf_max, sf_iteration, sf_pending, sf_events,
                   sf_yielded, sf_taken, sf_writer>>

\* a partial response: a MODEL_RESPONSE_DELTA Event is yielded
SimpleFlowDelta ==
    /\ sf_pc = "stream"
    /\ sf_deltas > 0
    /\ sf_deltas' = sf_deltas - 1
    /\ Emit(Event("model_response_delta", [text |-> "chunk"], NextStamp))
    /\ UNCHANGED <<sf_mode, sf_pc, sf_max, sf_iteration, sf_pending, sf_taken>>

\* the final response of the stream: a MODEL_RESPONSE Event is yielded
SimpleFlowFinal(resp) ==
    /\ sf_pc = "stream"
    /\ sf_deltas = 0
    /\ Emit(Event("model_response", [text |-> resp.content], NextStamp))
    /\ AfterModelResponse(resp)
    /\ UNCHANGED <<sf_mode, sf_max, sf_iteration, sf_deltas, sf_taken>>

\* the four _execute_tool methods, first half: the TOOL_CALL Event
SimpleFlowToolCall ==
    /\ sf_pc = "tools"
    /\ sf_pending # <<>>
    /\ Emit(Event("tool_call", Head(sf_pending), NextStamp))
    /\ sf_pc' = "execute"
    /\ UNCHANGED <<sf_mode, sf_max, sf_iteration, sf_pending, sf_deltas, sf_taken>>

\* the for loop over function_calls moves on; after the last call the loop
\* is entered again with iteration + 1
AfterExecute ==
    /\ sf_pending' = Tail(sf_pending)
    /\ IF Tail(sf_pending) = <<>>
       THEN sf_pc' = "loop" /\ sf_iteration' = sf_iteration + 1
       ELSE sf_pc' = "tools" /\ UNCHANGED sf_iteration

\* second half: the tool returns, a TOOL_RESPONSE Event
SimpleFlowToolReturns ==
    /\ sf_pc = "execute"
    /\ flow_find_tool(Head(sf_pending).name) # None
    /\ Emit(ToolResponse(Head(sf_pending), "result", NextStamp))
    /\ AfterExecute
    /\ UNCHANGED <<sf_mode, sf_max, sf_deltas, sf_taken>>

\* second half: the tool raises, an ERROR Event names it
SimpleFlowToolRaises ==
    /\ sf_pc = "execute"
    /\ flow_find_tool(Head(sf_pending).name) # None
    /\ Emit(Event("error", [tool |-> Head(sf_pending).name, error |-> "raised"], NextStamp))
    /\ AfterExecute
    /\ UNCHANGED <<sf_mode, sf_max, sf_deltas, sf_taken>>

\* second half: find_tool finds nothing, no further Event
SimpleFlowToolMissing ==
    /\ sf_pc = "execute"
    /\ flow_find_tool(Head(sf_pending).name) = None
    /\ AfterExecute
    /\ UNCHANGED <<sf_mode, sf_max, sf_deltas, sf_events, sf_yielded, sf_taken,
                   sf_writer>>

hookVars == <<hook_pc, hook_cfg, hook_out, hook_impl, hook_after>>

\* ------------------------------------------------------ BaseAgent.run_async

\* the members of the enumeration EventType
EventTypeNames ==
    {"USER_MESSAGE", "MODEL_REQUEST", "MODEL_RESPONSE", "MODEL_RESPONSE_DELTA",
     "TOOL_CALL", "TOOL_RESPONSE", "AGENT_TRANSFER", "ERROR"}

\* EventType.<name>: the member, or AttributeError when the enumeration has
\* no member of that name
EventTypeMember(name) == IF name \in EventTypeNames THEN name ELSE "AttributeError"

\* before_agent_callback: not set, returning nothing, returning content;
\* after_agent_callback: set or not
HookConfigs ==
    [before : {"absent", "nothing", "content"}, after : BOOLEAN,
     kind : {"LlmAgent", "SequentialAgent"}]

\* what _run_async_impl of the agent may yield
ImplEvents ==
    { [event_type |-> t, author |-> "agent", content |-> "own"]
        : t \in {"MODEL_RESPONSE", "TOOL_RESPONSE"} }

HookInit ==
    /\ hook_pc = "idle"
    /\ hook_cfg = [before |-> "absent", after |-> FALSE, kind |-> "LlmAgent"]
    /\ hook_out = <<>>
    /\ hook_impl = FALSE
    /\ hook_after = 0

\* agent.run_async(session) is called and the generator is started
RunAsync(cfg) ==
    /\ hook_pc = "idle"
    /\ hook_cfg' = cfg
    /\ hook_pc' = "before"
    /\ UNCHANGED <<hook_out, hook_impl, hook_after>>

\* if self.before_agent_callback: ... if result: the Event is built and
\* yielded, and the generator returns; building it evaluates
\* EventType.TEXT_CHUNK
BeforeReturnsContent ==
    /\ hook_pc = "before"
    /\ hook_cfg.before = "content"
    /\ IF EventTypeMember("TEXT_CHUNK") = "AttributeError"
       THEN hook_pc' = "raised" /\ UNCHANGED hook_out
       ELSE /\ hook_out' = Append(hook_out,
                   [event_type |-> EventTypeMember("TEXT_CHUNK"), author |-> "agent",
                    content |-> "replacement"])
            /\ hook_pc' = "done"
    /\ UNCHANGED <<hook_cfg, hook_impl, hook_after>>

\* no before callback, or one whose result is empty: _run_async_impl is entered
BeforePasses ==
    /\ hook_pc = "before"
    /\ hook_cfg.before \in {"absent", "nothing"}
    /\ hook_impl' = TRUE
    /\ hook_pc' = "impl"
    /\ UNCHANGED <<hook_cfg, hook_out, hook_after>>

\* async for event in self._run_async_impl(session, llm=llm): yield event
ImplYields(event) ==
    /\ hook_pc = "impl"
    /\ Len(hook_out) < MaxHookEvents
    /\ hook_out' = Append(hook_out, event)
    /\ UNCHANGED <<hook_pc, hook_cfg, hook_impl, hook_after>>

\* _run_async_impl is exhausted: the after callback, if there is one, is called
ImplEnds ==
    /\ hook_pc = "impl"
    /\ hook_after' = IF hook_cfg.after THEN hook_after + 1 ELSE hook_after
    /\ hook_pc' = "done"
    /\ UNCHANGED <<hook_cfg, hook_out, hook_impl>>

turnVars == <<turn_pc, turn_cfg, pending_name, frames, handoffs, authored, called, model_calls>>

\* ------------------------------------------------------ a turn in an agent tree

TreeAgent(kind, name, sub_agents, parent_agent) ==
    [kind |-> kind, name |-> name, sub_agents |-> sub_agents, parent_agent |-> parent_agent,
     disallow_transfer_to_parent |-> FALSE, disallow_transfer_to_peers |-> FALSE]

\* an LLM agent with two LLM children, and a SequentialAgent with the same
LlmTree ==
    <<TreeAgent("LlmAgent", "root", <<2, 3>>, NoAgent),
      TreeAgent("LlmAgent", "b", <<>>, 1), TreeAgent("LlmAgent", "c", <<>>, 1)>>

SequentialTree ==
    <<TreeAgent("SequentialAgent", "root", <<2, 3>>, NoAgent),
      TreeAgent("LlmAgent", "b", <<>>, 1), TreeAgent("LlmAgent", "c", <<>>, 1)>>

\* the names a model or an earlier turn may give as target: the agents of the
\* tree and a name no agent has
TargetNames == {"root", "b", "c", "ghost"}

\* tools: every LLM agent has a TransferToAgentTool, made with no
\* available_agents ("open") or with the names of its transferable agents
TurnConfigs ==
    [tree : {LlmTree, SequentialTree}, tools : {"open", "transferable"},
     max_iterations : 1..MaxAgentIter]

\* available_agents of the agent's transfer tool
available_agents(cfg, self) ==
    IF cfg.tools = "open" THEN {}
    ELSE {cfg.tree[a].name : a \in Range(get_transferable_agents(cfg.tree, self))}

\* TransferToAgentTool.run_async: the error mapping when the name is empty or
\* not among a non-empty available_agents, else the transfer signal
TransferToAgentTool_run_async(available, agent_name) ==
    IF agent_name = "" THEN "error"
    ELSE IF available # {} /\ agent_name \notin available THEN "error"
    ELSE "transfer"

\* what a model may reply: a text, a call of get_weather, or a call of
\* transfer_to_agent followed by a call of get_weather
TransferCall(target) == [name |-> "transfer_to_agent", agent_name |-> target]
WeatherCall == [name |-> "get_weather", agent_name |-> ""]
ModelReplies ==
    {<<>>, <<WeatherCall>>} \cup {<<TransferCall(n), WeatherCall>> : n \in TargetNames}

\* a run_async generator: where it stands, and what its flow holds
Generator(agent) ==
    [agent |-> agent, pc |-> "start", iteration |-> 0, function_calls |-> <<>>,
     index |-> 0, transferred |-> FALSE, called |-> FALSE]

TurnInit ==
    /\ turn_pc = "idle"
    /\ turn_cfg = [tree |-> LlmTree, tools |-> "open", max_iterations |-> 1]
    /\ pending_name = None
    /\ frames = <<>>
    /\ handoffs = {}
    /\ authored = {}
    /\ called = {}
    /\ model_calls = 0

\* the innermost generator, and the stack with it replaced or dropped
Innermost == frames[Len(frames)]
WithInnermost(frame) == [frames EXCEPT ![Len(frames)] = frame]
Returned == SubSeq(frames, 1, Len(frames) - 1)

\* the index a SequentialAgent on the way to the caller stamps last: that of
\* the outermost one, -1 without any
sequential_index ==
    LET seqs == {i \in DOMAIN frames : turn_cfg.tree[frames[i].agent].kind = "SequentialAgent"}
    IN  IF seqs = {} THEN -1 ELSE frames[CHOOSE i \in seqs : \A j \in seqs : i <= j].index

\* an Event of the innermost agent reaches the caller
YieldEvent == authored' = authored \cup {<<Innermost.agent, sequential_index>>}

Running(kind, pc) ==
    /\ turn_pc = "running"
    /\ frames # <<>>
    /\ turn_cfg.tree[Innermost.agent].kind = kind
    /\ Innermost.pc = pc

\* the caller runs the root agent on a session whose most recent
\* AGENT_TRANSFER Event, if it has one, names pending
TurnStart(cfg, pending) ==
    /\ turn_pc = "idle"
    /\ turn_cfg' = cfg
    /\ pending_name' = pending
    /\ frames' = <<Generator(1)>>
    /\ turn_pc' = "running"
    /\ UNCHANGED <<handoffs, authored, called, model_calls>>

\* _check_pending_transfer that does not compare the target with the agent's name
check_pending_transfer_any(tree, self, target_name) ==
    IF target_name # None
    THEN find_agent(tree, root_agent(tree, self), target_name)
    ELSE NoAgent

\* _check_pending_transfer: the target of the most recent AGENT_TRANSFER Event,
\* looked up from the root, when it has another name than the agent
check_pending_transfer(tree, self, target_name) ==
    IF target_name # None /\ target_name # tree[self].name
    THEN find_agent(tree, root_agent(tree, self), target_name)
    ELSE NoAgent

\* control passes from the innermost generator to target
HandOff(target, how) ==
    /\ Cardinality(handoffs) < MaxHandoffs \/ <<Innermost.agent, target, how>> \in handoffs
    /\ model_calls < MaxTurnCalls
    /\ handoffs' = handoffs \cup {<<Innermost.agent, target, how>>}

\* _run_async_impl, a pending transfer: the target is run, then return
LlmResumesTransfer ==
    /\ Running("LlmAgent", "start")
    /\ LET target == check_pending_transfer(turn_cfg.tree, Innermost.agent, pending_name)
       IN  /\ target # NoAgent
           /\ HandOff(target, "resume")
           /\ frames' = Append(WithInnermost([Innermost EXCEPT !.pc = "await"]),
                               Generator(target))
    /\ UNCHANGED <<turn_pc, turn_cfg, pending_name, authored, called, model_calls>>

\* _run_async_impl, no pending transfer: the flow is started
LlmRunsFlow ==
    /\ Running("LlmAgent", "start")
    /\ check_pending_transfer(turn_cfg.tree, Innermost.agent, pending_name) = NoAgent
    /\ frames' = WithInnermost([Innermost EXCEPT !.pc = "loop"])
    /\ UNCHANGED <<turn_pc, turn_cfg, pending_name, handoffs, authored, called, model_calls>>

\* the flow at its ceiling: the ERROR Event, and the generators are exhausted
AgentFlowCeiling ==
    /\ Running("LlmAgent", "loop")
    /\ AtCeiling(Innermost.iteration, turn_cfg.max_iterations)
    /\ YieldEvent
    /\ frames' = Returned
    /\ UNCHANGED <<turn_pc, turn_cfg, pending_name, handoffs, called, model_calls>>

\* the flow below its ceiling: the model call and its MODEL_RESPONSE Event;
\* without function calls the generators are exhausted
AgentModelCall(reply) ==
    /\ Running("LlmAgent", "loop")
    /\ ~AtCeiling(Innermost.iteration, turn_cfg.max_iterations)
    /\ model_calls < MaxTurnCalls
    /\ model_calls' = model_calls + 1
    /\ called' = called \cup {Innermost.agent}
    /\ YieldEvent
    /\ frames' = IF reply = <<>> THEN Returned
                 ELSE WithInnermost([Innermost EXCEPT !.pc = "tools", !.called = TRUE,
                                                     !.function_calls = reply])
    /\ UNCHANGED <<turn_pc, turn_cfg, pending_name, handoffs>>

\* the for loop over function_calls moves on; after the last call the loop
\* is entered again with iteration + 1
NextFunctionCall(frame) ==
    IF Tail(frame.function_calls) = <<>>
    THEN [frame EXCEPT !.function_calls = <<>>, !.pc = "loop", !.iteration = @ + 1]
    ELSE [frame EXCEPT !.function_calls = Tail(@)]

\* what the tool of the next function call returns
ToolResult ==
    LET fc == Head(Innermost.function_calls)
    IN  IF fc.name = "transfer_to_agent"
        THEN TransferToAgentTool_run_async(
                 available_agents(turn_cfg, Innermost.agent), fc.agent_name)
        ELSE "result"

\* a function call whose tool returns no transfer signal: the TOOL_CALL and
\* TOOL_RESPONSE Events
AgentToolResponds ==
    /\ Running("LlmAgent", "tools")
    /\ ToolResult # "transfer"
    /\ YieldEvent
    /\ frames' = WithInnermost(NextFunctionCall(Innermost))
    /\ UNCHANGED <<turn_pc, turn_cfg, pending_name, handoffs, called, model_calls>>

\* the flow goes on after a hand-off: the generator is not left
AfterTransferResumes(target) ==
    frames' = Append(WithInnermost(NextFunctionCall(Innermost)), Generator(target))

\* after the AGENT_TRANSFER Event of an agent that exists: the target is run
\* and the generator waits for it, only to return
AfterTransfer(target) ==
    frames' = Append(WithInnermost([Innermost EXCEPT !.pc = "await", !.transferred = TRUE]),
                     Generator(target))

\* transfer_to_agent gives the transfer signal: the AGENT_TRANSFER Event is
\* yielded and recorded by the caller; the agent looks the target up from the root
AgentTransfers ==
    /\ Running("LlmAgent", "tools")
    /\ ToolResult = "transfer"
    /\ YieldEvent
    /\ pending_name' = Head(Innermost.function_calls).agent_name
    /\ LET target == find_agent(turn_cfg.tree, root_agent(turn_cfg.tree, Innermost.agent),
                                Head(Innermost.function_calls).agent_name)
       IN  IF target # NoAgent
           THEN HandOff(target, "transfer") /\ AfterTransfer(target)
           ELSE /\ frames' = WithInnermost(NextFunctionCall(Innermost))
                /\ UNCHANGED handoffs
    /\ UNCHANGED <<turn_pc, turn_cfg, called, model_calls>>

\* the agent run in the place of this one is through: return
LlmReturns ==
    /\ Running("LlmAgent", "await")
    /\ frames' = Returned
    /\ UNCHANGED <<turn_pc, turn_cfg, pending_name, handoffs, authored, called, model_calls>>

\* SequentialAgent._run_async_impl: the for loop takes the next sub-agent
SequentialStartsSub ==
    /\ Running("SequentialAgent", "start")
    /\ Innermost.index < Len(turn_cfg.tree[Innermost.agent].sub_agents)
    /\ Len(frames) < MaxNesting
    /\ frames' = Append(WithInnermost([Innermost EXCEPT !.pc = "sub"]),
                        Generator(turn_cfg.tree[Innermost.agent].sub_agents[Innermost.index + 1]))
    /\ UNCHANGED <<turn_pc, turn_cfg, pending_name, handoffs, authored, called, model_calls>>

\* the sub-agent is through: the for loop moves on
SequentialSubEnds ==
    /\ Running("SequentialAgent", "sub")
    /\ frames' = WithInnermost([Innermost EXCEPT !.pc = "start", !.index = @ + 1])
    /\ UNCHANGED <<turn_pc, turn_cfg, pending_name, handoffs, authored, called, model_calls>>

\* the for loop is through
SequentialCompleted ==
    /\ Running("SequentialAgent", "start")
    /\ Innermost.index >= Len(turn_cfg.tree[Innermost.agent].sub_agents)
    /\ frames' = Returned
    /\ UNCHANGED <<turn_pc, turn_cfg, pending_name, handoffs, authored, called, model_calls>>

\* the root's generator is exhausted
TurnEnds ==
    /\ turn_pc = "running"
    /\ frames = <<>>
    /\ turn_pc' = "done"
    /\ UNCHANGED <<turn_cfg, pending_name, frames, handoffs, authored, called, model_calls>>

\* ------------------------------------------------------------ specifications

vars == <<storeVars, runnerVars, flowVars, loopVars, seqVars, treeVars, llmVars, memVars, mgrVars, mtVars, sseVars, mxVars, histVars, sfVars, hookVars, turnVars>>

storeFrame == UNCHANGED <<runnerVars, flowVars, loopVars, seqVars, treeVars, llmVars, memVars, mgrVars, mtVars, sseVars, mxVars, histVars, sfVars, hookVars, turnVars>>
runnerFrame == UNCHANGED <<storeVars, flowVars, loopVars, seqVars, treeVars, llmVars, memVars, mgrVars, mtVars, sseVars, mxVars, histVars, sfVars, hookVars, turnVars>>
flowFrame == UNCHANGED <<storeVars, runnerVars, loopVars, seqVars, treeVars, llmVars, memVars, mgrVars, mtVars, sseVars, mxVars, histVars, sfVars, hookVars, turnVars>>
loopFrame == UNCHANGED <<storeVars, runnerVars, flowVars, seqVars, treeVars, llmVars, memVars, mgrVars, mtVars, sseVars, mxVars, histVars, sfVars, hookVars, turnVars>>
seqFrame == UNCHANGED <<storeVars, runnerVars, flowVars, loopVars, treeVars, llmVars, memVars, mgrVars, mtVars, sseVars, mxVars, histVars, sfVars, hookVars, turnVars>>
treeFrame == UNCHANGED <<storeVars, runnerVars, flowVars, loopVars, seqVars, llmVars, memVars, mgrVars, mtVars, sseVars, mxVars, histVars, sfVars, hookVars, turnVars>>
llmFrame == UNCHANGED <<storeVars, runnerVars, flowVars, loopVars, seqVars, treeVars, memVars, mgrVars, mtVars, sseVars, mxVars, histVars, sfVars, hookVars, turnVars>>
memFrame == UNCHANGED <<storeVars, runnerVars, flowVars, loopVars, seqVars, treeVars, llmVars, mgrVars, mtVars, sseVars, mxVars, histVars, sfVars, hookVars, turnVars>>
mgrFrame == UNCHANGED <<storeVars, runnerVars, flowVars, loopVars, seqVars, treeVars, llmVars, memVars, mtVars, sseVars, mxVars, histVars, sfVars, hookVars, turnVars>>
mtFrame == UNCHANGED <<storeVars, runnerVars, flowVars, loopVars, seqVars, treeVars, llmVars, memVars, mgrVars, sseVars, mxVars, histVars, sfVars, hookVars, turnVars>>
sseFrame == UNCHANGED <<storeVars, runnerVars, flowVars, loopVars, seqVars, treeVars, llmVars, memVars, mgrVars, mtVars, mxVars, histVars, sfVars, hookVars, turnVars>>
mxFrame == UNCHANGED <<storeVars, runnerVars, flowVars, loopVars, seqVars, treeVars, llmVars, memVars, mgrVars, mtVars, sseVars, histVars, sfVars, hookVars, turnVars>>
histFrame == UNCHANGED <<storeVars, runnerVars, flowVars, loopVars, seqVars, treeVars, llmVars, memVars, mgrVars, mtVars, sseVars, mxVars, sfVars, hookVars, turnVars>>
sfFrame == UNCHANGED <<storeVars, runnerVars, flowVars, loopVars, seqVars, treeVars, llmVars, memVars, mgrVars, mtVars, sseVars, mxVars, histVars, hookVars, turnVars>>
hookFrame == UNCHANGED <<storeVars, runnerVars, flowVars, loopVars, seqVars, treeVars, llmVars, memVars, mgrVars, mtVars, sseVars, mxVars, histVars, sfVars, turnVars>>
turnFrame == UNCHANGED <<storeVars, runnerVars, flowVars, loopVars, seqVars, treeVars, llmVars, memVars, mgrVars, mtVars, sseVars, mxVars, histVars, sfVars, hookVars>>












InitStore ==
    /\ StoreInit /\ RunnerQuiet /\ FlowQuiet /\ LoopQuiet /\ SeqQuiet
    /\ TreeInit /\ LlmQuiet /\ MemoryInit /\ ManagerQuiet /\ ToolsQuiet
    /\ SseInit /\ MarkupInit /\ HistoryInit /\ SimpleFlowInit /\ HookInit
    /\ TurnInit

NextStore ==
    \/ \E a \in Apps, u \in UserIds, s \in SessionIds : CreateSession(a, u, s) /\ storeFrame
    \/ \E a \in Apps, u \in UserIds : CreateSessionGenerated(a, u) /\ storeFrame
    \/ \E u \in UserIds, s \in SessionIds : GetSession(u, s) /\ storeFrame
    \/ \E k \in DOMAIN sessions, e \in StoreEvents : AppendEvent(k, e) /\ storeFrame
    \/ \E k \in DOMAIN sessions : Clear(k) /\ storeFrame
    \/ \E u \in UserIds, s \in SessionIds : DeleteSession(u, s) /\ storeFrame

SpecStore == InitStore /\ [][NextStore]_vars

InitRunner ==
    /\ StoreInit /\ RunnerInit /\ FlowQuiet /\ LoopQuiet /\ SeqQuiet
    /\ TreeInit /\ LlmQuiet /\ MemoryInit /\ ManagerQuiet /\ ToolsQuiet
    /\ SseInit /\ MarkupInit /\ HistoryInit /\ SimpleFlowInit /\ HookInit
    /\ TurnInit

NextRunner ==
    \/ \E m \in UserMessages : RunnerRun(m) /\ runnerFrame
    \/ \E m \in UserMessages : RunnerRunStream(m) /\ runnerFrame
    \/ RunnerMockCall /\ runnerFrame
    \/ \E r \in LlmResponses : RunnerCallLlm(r) /\ runnerFrame
    \/ \E r \in LlmResponses, n \in DeltaCounts : RunnerCallLlmStream(r, n) /\ runnerFrame
    \/ RunnerDelta /\ runnerFrame
    \/ RunnerStreamDone /\ runnerFrame
    \/ RunnerToolCall /\ runnerFrame
    \/ RunnerToolReturns /\ runnerFrame
    \/ RunnerToolRaises /\ runnerFrame
    \/ RunnerToolMissing /\ runnerFrame

SpecRunner == InitRunner /\ [][NextRunner]_vars

InitFlow ==
    /\ StoreInit /\ RunnerQuiet /\ FlowInit /\ LoopQuiet /\ SeqQuiet
    /\ TreeInit /\ LlmQuiet /\ MemoryInit /\ ManagerQuiet /\ ToolsQuiet
    /\ SseInit /\ MarkupInit /\ HistoryInit /\ SimpleFlowInit /\ HookInit
    /\ TurnInit

NextFlow ==
    \/ FlowRunStreamAsync /\ flowFrame
    \/ FlowCeiling /\ flowFrame
    \/ \E n \in DeltaCounts : FlowGenerate(n) /\ flowFrame
    \/ FlowDelta /\ flowFrame
    \/ \E r \in FlowResponses : FlowFinal(r) /\ flowFrame
    \/ FlowToolCall /\ flowFrame
    \/ FlowToolReturns /\ flowFrame
    \/ FlowToolRaises /\ flowFrame
    \/ FlowToolTransfers /\ flowFrame
    \/ FlowToolEscalates /\ flowFrame
    \/ FlowToolMissing /\ flowFrame

SpecFlow == InitFlow /\ [][NextFlow]_vars

InitLoop ==
    /\ StoreInit /\ RunnerQuiet /\ FlowQuiet /\ LoopInit /\ SeqQuiet
    /\ TreeInit /\ LlmQuiet /\ MemoryInit /\ ManagerQuiet /\ ToolsQuiet
    /\ SseInit /\ MarkupInit /\ HistoryInit /\ SimpleFlowInit /\ HookInit
    /\ TurnInit

NextLoop ==
    \/ LoopRun /\ loopFrame
    \/ LoopExit /\ loopFrame
    \/ LoopPass /\ loopFrame
    \/ LoopStartSub /\ loopFrame
    \/ LoopEndOfPass /\ loopFrame
    \/ \E escalates \in BOOLEAN : LoopSubYields(escalates) /\ loopFrame
    \/ LoopSubEnds /\ loopFrame

SpecLoop == InitLoop /\ [][NextLoop]_vars

InitSeq ==
    /\ StoreInit /\ RunnerQuiet /\ FlowQuiet /\ LoopQuiet /\ SeqInit
    /\ TreeInit /\ LlmQuiet /\ MemoryInit /\ ManagerQuiet /\ ToolsQuiet
    /\ SseInit /\ MarkupInit /\ HistoryInit /\ SimpleFlowInit /\ HookInit
    /\ TurnInit

NextSeq ==
    \/ SeqRun /\ seqFrame
    \/ SeqStartSub /\ seqFrame
    \/ \E escalates \in BOOLEAN : SeqSubYields(escalates) /\ seqFrame
    \/ SeqSubEnds /\ seqFrame
    \/ SeqCompleted /\ seqFrame

SpecSeq == InitSeq /\ [][NextSeq]_vars

InitTree ==
    /\ StoreInit /\ RunnerQuiet /\ FlowQuiet /\ LoopQuiet /\ SeqQuiet
    /\ TreeInit /\ LlmQuiet /\ MemoryInit /\ ManagerQuiet /\ ToolsQuiet
    /\ SseInit /\ MarkupInit /\ HistoryInit /\ SimpleFlowInit /\ HookInit
    /\ TurnInit

NextTree ==
    \/ ConstructLlmAgent /\ treeFrame
    \/ ConstructSequentialAgent /\ treeFrame
    \/ ConstructLoopAgent /\ treeFrame
    \/ GetTransferableAgents /\ treeFrame

SpecTree == InitTree /\ [][NextTree]_vars

InitLlm ==
    /\ StoreInit /\ RunnerQuiet /\ FlowQuiet /\ LoopQuiet /\ SeqQuiet
    /\ TreeInit /\ LlmInit /\ MemoryInit /\ ManagerQuiet /\ ToolsQuiet
    /\ SseInit /\ MarkupInit /\ HistoryInit /\ SimpleFlowInit /\ HookInit
    /\ TurnInit

NextLlm ==
    \/ GenerateOnce /\ llmFrame
    \/ GenerateStream /\ llmFrame
    \/ CreateRaises /\ llmFrame
    \/ \E n \in 1..(Len(gcfg.text) - gpos) : StreamChunk(n) /\ llmFrame
    \/ StreamToolCallChunk /\ llmFrame
    \/ StreamRaises /\ llmFrame
    \/ StreamEnds /\ llmFrame

SpecLlm == InitLlm /\ [][NextLlm]_vars

InitMemory ==
    /\ StoreInit /\ RunnerQuiet /\ FlowQuiet /\ LoopQuiet /\ SeqQuiet
    /\ TreeInit /\ LlmQuiet /\ MemoryInit /\ ManagerQuiet /\ ToolsQuiet
    /\ SseInit /\ MarkupInit /\ HistoryInit /\ SimpleFlowInit /\ HookInit
    /\ TurnInit

NextMemory ==
    \/ \E entry \in EntryPool : add(entry) /\ memFrame
    \/ \E memory_id \in MemoryIds : get(memory_id) /\ memFrame
    \/ \E call \in ClearCalls : clear(call) /\ memFrame
    \/ \E call \in SearchCalls : SearchBegin(call) /\ memFrame
    \/ SearchNext /\ memFrame

SpecMemory == InitMemory /\ [][NextMemory]_vars

NextKeyword ==
    \/ \E entry \in KeywordEntries : add(entry) /\ memFrame
    \/ \E memory_id \in MemoryIds : get(memory_id) /\ memFrame
    \/ \E call \in ClearCalls : clear(call) /\ memFrame
    \/ \E call \in KeywordCalls : SearchBegin(call) /\ memFrame
    \/ SearchNext /\ memFrame

SpecKeyword == InitMemory /\ [][NextKeyword]_vars

InitManager ==
    /\ StoreInit /\ RunnerQuiet /\ FlowQuiet /\ LoopQuiet /\ SeqQuiet
    /\ TreeInit /\ LlmQuiet /\ MemoryInit /\ ManagerInit /\ ToolsQuiet
    /\ SseInit /\ MarkupInit /\ HistoryInit /\ SimpleFlowInit /\ HookInit
    /\ TurnInit

NextManager ==
    \/ \E entry \in ManagerEntries : ManagerAdd(entry) /\ mgrFrame
    \/ \E service \in {"short", "long"}, entry \in ManagerEntries :
          ServiceAdd(service, entry) /\ mgrFrame
    \/ \E call \in ManagerSearches : ManagerSearch(call) /\ mgrFrame

SpecManager == InitManager /\ [][NextManager]_vars

NextTiers ==
    \/ \E entry \in TierEntries : ManagerAdd(entry) /\ mgrFrame
    \/ \E call \in TierCalls : ManagerSearch(call) /\ mgrFrame
    \/ \E call \in TierCalls : call.session_id = None /\ ManagerClear(call) /\ mgrFrame

SpecTiers == InitManager /\ [][NextTiers]_vars

InitTools ==
    /\ StoreInit /\ RunnerQuiet /\ FlowQuiet /\ LoopQuiet /\ SeqQuiet
    /\ TreeInit /\ LlmQuiet /\ MemoryInit /\ ManagerQuiet /\ ToolsInit
    /\ SseInit /\ MarkupInit /\ HistoryInit /\ SimpleFlowInit /\ HookInit
    /\ TurnInit

NextTools ==
    \/ \E entry \in KeywordEntries : ServiceStores(entry) /\ mtFrame
    \/ BuildRequest /\ mtFrame
    \/ \E call_name \in {"echo", "load_memory", "preload_memory"}, query \in ToolQueries :
          ExecuteTool(call_name, query) /\ mtFrame
    \/ \E context \in Contexts : Preload(context) /\ mtFrame
    \/ \E query \in ToolQueries, context \in Contexts : Load(query, context) /\ mtFrame

SpecTools == InitTools /\ [][NextTools]_vars

InitSse ==
    /\ StoreInit /\ RunnerQuiet /\ FlowQuiet /\ LoopQuiet /\ SeqQuiet
    /\ TreeInit /\ LlmQuiet /\ MemoryInit /\ ManagerQuiet /\ ToolsQuiet
    /\ SseInit /\ MarkupInit /\ HistoryInit /\ SimpleFlowInit /\ HookInit
    /\ TurnInit

NextSse ==
    \/ ChatStream /\ sseFrame
    \/ \E event \in SseEvents : RunnerYields(event) /\ sseFrame
    \/ RunnerExhausted /\ sseFrame
    \/ RunnerRaisesInStream /\ sseFrame

SpecSse == InitSse /\ [][NextSse]_vars

InitMarkup ==
    /\ StoreInit /\ RunnerQuiet /\ FlowQuiet /\ LoopQuiet /\ SeqQuiet
    /\ TreeInit /\ LlmQuiet /\ MemoryInit /\ ManagerQuiet /\ ToolsQuiet
    /\ SseInit /\ MarkupInit /\ HistoryInit /\ SimpleFlowInit /\ HookInit
    /\ TurnInit

NextMarkup ==
    \/ ParseResponse /\ mxFrame
    \/ \E reply \in MarkupReplies : Reply(reply) /\ mxFrame

SpecMarkup == InitMarkup /\ [][NextMarkup]_vars

InitHistory ==
    /\ StoreInit /\ RunnerQuiet /\ FlowQuiet /\ LoopQuiet /\ SeqQuiet
    /\ TreeInit /\ LlmQuiet /\ MemoryInit /\ ManagerQuiet /\ ToolsQuiet
    /\ SseInit /\ MarkupInit /\ HistoryInit /\ SimpleFlowInit /\ HookInit
    /\ TurnInit

NextHistory ==
    \/ \E event \in NextEvents(hlog) : AddEvent(event) /\ histFrame

SpecHistory == InitHistory /\ [][NextHistory]_vars

InitSimpleFlow ==
    /\ StoreInit /\ RunnerQuiet /\ FlowQuiet /\ LoopQuiet /\ SeqQuiet
    /\ TreeInit /\ LlmQuiet /\ MemoryInit /\ ManagerQuiet /\ ToolsQuiet
    /\ SseInit /\ MarkupInit /\ HistoryInit /\ SimpleFlowInit /\ HookInit
    /\ TurnInit

NextSimpleFlow ==
    \/ CallerAddsUserMessage /\ sfFrame
    \/ CallerAddsYielded /\ sfFrame
    \/ \E mode \in SimpleFlowModes, m \in SimpleFlowCeilings : SimpleFlowRun(mode, m) /\ sfFrame
    \/ SimpleFlowCeiling /\ sfFrame
    \/ \E resp \in SimpleFlowResponses : SimpleFlowGenerate(resp) /\ sfFrame
    \/ \E n \in 0..1 : SimpleFlowGenerateStream(n) /\ sfFrame
    \/ SimpleFlowDelta /\ sfFrame
    \/ \E resp \in SimpleFlowResponses : SimpleFlowFinal(resp) /\ sfFrame
    \/ SimpleFlowToolCall /\ sfFrame
    \/ SimpleFlowToolReturns /\ sfFrame
    \/ SimpleFlowToolRaises /\ sfFrame
    \/ SimpleFlowToolMissing /\ sfFrame

SpecSimpleFlow == InitSimpleFlow /\ [][NextSimpleFlow]_vars

InitHook ==
    /\ StoreInit /\ RunnerQuiet /\ FlowQuiet /\ LoopQuiet /\ SeqQuiet
    /\ TreeInit /\ LlmQuiet /\ MemoryInit /\ ManagerQuiet /\ ToolsQuiet
    /\ SseInit /\ MarkupInit /\ HistoryInit /\ SimpleFlowInit /\ HookInit
    /\ TurnInit

NextHook ==
    \/ \E cfg \in HookConfigs : RunAsync(cfg) /\ hookFrame
    \/ BeforeReturnsContent /\ hookFrame
    \/ BeforePasses /\ hookFrame
    \/ \E event \in ImplEvents : ImplYields(event) /\ hookFrame
    \/ ImplEnds /\ hookFrame

SpecHook == InitHook /\ [][NextHook]_vars

InitTurn ==
    /\ StoreInit /\ RunnerQuiet /\ FlowQuiet /\ LoopQuiet /\ SeqQuiet
    /\ TreeInit /\ LlmQuiet /\ MemoryInit /\ ManagerQuiet /\ ToolsQuiet
    /\ SseInit /\ MarkupInit /\ HistoryInit /\ SimpleFlowInit /\ HookInit
    /\ TurnInit

NextTurn ==
    \/ \E cfg \in TurnConfigs, pending \in TargetNames \cup {None} :
          TurnStart(cfg, pending) /\ turnFrame
    \/ LlmResumesTransfer /\ turnFrame
    \/ LlmRunsFlow /\ turnFrame
    \/ AgentFlowCeiling /\ turnFrame
    \/ \E reply \in ModelReplies : AgentModelCall(reply) /\ turnFrame
    \/ AgentToolResponds /\ turnFrame
    \/ AgentTransfers /\ turnFrame
    \/ LlmReturns /\ turnFrame
    \/ SequentialStartsSub /\ turnFrame
    \/ SequentialSubEnds /\ turnFrame
    \/ SequentialCompleted /\ turnFrame
    \/ TurnEnds /\ turnFrame

SpecTurn == InitTurn /\ [][NextTurn]_vars

\* -------------------------------------------------------- the session store

\* the stored sessions a step keeps
Kept == DOMAIN sessions \cap DOMAIN sessions'

IdentityInUse(app_name, key) == key \in DOMAIN sessions /\ owner[key] = app_name

\* C7: creating a session for an identity that already exists fails and leaves
\* the store unchanged, and creating one for an unused identity adds exactly
\* that one session, with an empty event log.
C7_CreateSession ==
    [][lastOp'.op = "create_session" =>
         LET key == lastOp'.key
         IN IF IdentityInUse(lastOp'.app_name, key)
            THEN lastOp'.result = "ValueError" /\ sessions' = sessions
            ELSE /\ lastOp'.result = "ok"
                 /\ key \notin DOMAIN sessions
                 /\ DOMAIN sessions' = DOMAIN sessions \cup {key}
                 /\ sessions'[key].events = <<>>
                 /\ \A k \in DOMAIN sessions : sessions'[k] = sessions[k]]_vars

\* C8: sessions are identified by the full (application, user, session)
\* triple: a create_session call never fails because of a session of another
\* identity, so whenever it fails the stored session it met was created for
\* the same application.
C8_TripleIdentity ==
    lastOp.op = "create_session" /\ lastOp.result = "ValueError"
        => owner[lastOp.key] = lastOp.app_name

\* ------------------------------------------------------------------ the Runner

\* C2: in every Runner turn the user-message Event is in the log before the
\* first model call, and every non-partial Event the turn produces is appended
\* exactly once, in production order, before it is handed to the caller:
\* whenever the caller receives such an Event it is the last Event of the log,
\* and the non-partial Events received so far are, in order, among the log's.
C2_AppendedBeforeHanded ==
    /\ llmCalls > 0 => log # <<>> /\ log[1].event_type = "user_message"
    /\ handed # NoEvent /\ ~handed.partial => log # <<>> /\ Last(log) = handed
    /\ \A i \in DOMAIN out :
         ~out[i].partial => Cardinality({j \in DOMAIN log : log[j] = out[i]}) = 1

\* C4: every Runner turn makes at most the agent's max_iterations model calls,
\* whatever the model replies.
C4_BoundedModelCalls == llmCalls <= rcfg.max_iterations

\* the calls an assistant message announces are answered by the tool-role
\* messages right behind it, one each, in order, with the call's id
Answered(history, i) ==
    \A j \in DOMAIN history[i].tool_calls :
        /\ i + j <= Len(history)
        /\ history[i + j].role = "tool"
        /\ history[i + j].tool_call_id = history[i].tool_calls[j].id

\* C6: in the conversation history built from an event log every tool-call
\* Event appears inside an assistant message that is immediately followed by
\* the tool-role messages answering it, each with the call's id as its
\* tool_call_id (looked at whenever the Runner is between two iterations or
\* through, when every tool call of the log has been executed).
C6_CallsAnswered ==
    rpc \in {"loop", "done"} =>
        LET history == get_conversation_history(log)
        IN \A i \in DOMAIN history : HasToolCalls(history[i]) => Answered(history, i)

\* C9: a Runner call for an identity that has no session in the store fails
\* with a not-found error and appends no Event, and the model is not called.
C9_NoSessionNoTurn ==
    ~rcfg.registered => log = <<>> /\ llmCalls = 0 /\ rpc \in {"idle", "not_found"}

\* -------------------------------------------------------------------- the flow

IsCeilingError(event) == event.event_type = "error" /\ "iteration" \in DOMAIN event.content

IsToolError(event) == event.event_type = "error" /\ "tool" \in DOMAIN event.content

Positions(events, P(_)) == { i \in DOMAIN events : P(events[i]) }

IsModelResponse(event) == event.event_type = "model_response"

IsToolCall(event) == event.event_type = "tool_call"

\* the model call answered by the Event at position i asked for a tool: its
\* MODEL_RESPONSE is followed by a TOOL_CALL
AskedForTool(events, i) == i < Len(events) /\ IsToolCall(events[i + 1])

\* C3: in one turn the flow makes at most max_iterations model calls and
\* yields at most one ceiling error; if the model asked for a tool on every
\* call, the finished turn ends with exactly one error Event reporting the
\* ceiling, after exactly max_iterations model calls.
C3_Ceiling ==
    /\ fmodelCalls <= fmax
    /\ Cardinality(Positions(fout, IsCeilingError)) <= 1
    /\ Cardinality(Positions(fout, IsModelResponse)) <= fmodelCalls
    /\ fpc = "done" /\ (\A i \in Positions(fout, IsModelResponse) : AskedForTool(fout, i))
         => /\ Cardinality(Positions(fout, IsCeilingError)) = 1
            /\ IsCeilingError(Last(fout))
            /\ fmodelCalls = fmax
            /\ Cardinality(Positions(fout, IsModelResponse)) = fmax

\* the model asked for a tool on both of two calls and the turn ended at the
\* ceiling of 2
C3_Witness ==
    /\ fpc = "done"
    /\ fmax = 2
    /\ fmodelCalls = 2
    /\ IsCeilingError(Last(fout))
    /\ \A i \in Positions(fout, IsModelResponse) : AskedForTool(fout, i)

RECURSIVE ToolErrorNames(_)
ToolErrorNames(events) ==
    IF events = <<>> THEN <<>>
    ELSE IF IsToolError(Head(events))
         THEN <<Head(events).content.tool>> \o ToolErrorNames(Tail(events))
         ELSE ToolErrorNames(Tail(events))

RECURSIVE ToolCallsOf(_)
ToolCallsOf(events) ==
    IF events = <<>> THEN <<>>
    ELSE IF IsToolCall(Head(events))
         THEN <<Head(events).content>> \o ToolCallsOf(Tail(events))
         ELSE ToolCallsOf(Tail(events))

\* the Events yielded since the latest MODEL_RESPONSE
SinceLastResponse(events) ==
    LET at == Positions(events, IsModelResponse)
        last == CHOOSE i \in at : \A j \in at : j <= i
    IN IF at = {} THEN <<>> ELSE SubSeq(events, last + 1, Len(events))

\* the latest tool error of the turn is followed by a MODEL_RESPONSE
ModelCallAfterLastRaise ==
    \A i \in Positions(fout, IsToolError) :
        \E j \in Positions(fout, IsModelResponse) : j > i

\* C5 (as stated): when a tool raises, the loop goes on to its next model
\* call: a finished turn in which a tool raised has a model response after
\* the last tool error.
C5_NextModelCall ==
    fpc = "done" /\ fraised # <<>> => ModelCallAfterLastRaise

\* C5 (amended): when a tool raises, that failure is turned into exactly one
\* error Event naming the tool, no exception reaches the caller, the remaining
\* function calls of the same model response are still executed in order, and
\* the loop goes on to its next iteration: the next model call or, when
\* max_iterations is reached, the ceiling error Event.
C5_RaiseIsContained ==
    /\ ToolErrorNames(fout) = fraised
    /\ fpc \in {"idle", "loop", "stream", "tools", "execute", "done"}
    /\ fpc \in {"tools", "execute"} =>
         ToolCallsOf(SinceLastResponse(fout))
             \o (IF fpc = "execute" THEN Tail(fpending) ELSE fpending)
           = fresponse.function_calls
    /\ fpc \in {"loop", "done"} =>
         ToolCallsOf(SinceLastResponse(fout)) = fresponse.function_calls
    /\ fpc = "done" /\ fraised # <<>> =>
         ModelCallAfterLastRaise \/ IsCeilingError(Last(fout))

\* the first of two function calls raised, the second was executed all the
\* same and the loop went on
C5_Witness ==
    /\ fpc = "done"
    /\ \E i \in Positions(fout, IsToolError) :
          /\ i + 2 <= Len(fout)
          /\ IsToolCall(fout[i + 1])
          /\ fout[i + 2].event_type = "tool_response"

\* --------------------------------------------------------------- the LoopAgent


\* the sub-agent run that yielded the Event
RunOf(event) ==
    << event.metadata.loop_iteration,
       CHOOSE i \in 1..4 : SubAgentName(i) = event.author >>

\* the second sub-agent escalates on its first Event: each of its runs yielded
\* an Event, and every Event it yielded carried escalate
SecondAlwaysEscalates ==
    /\ \E r \in Range(lstarts) : r[2] = 2
    /\ \A r \in Range(lstarts) : r[2] = 2 => \E i \in DOMAIN lout : RunOf(lout[i]) = r
    /\ \A i \in DOMAIN lout : lout[i].author = SubAgentName(2) => lout[i].metadata.escalate

\* C10: a LoopAgent stops as soon as an Event yielded by a sub-agent carries
\* escalate = true: that Event is the last one the LoopAgent yields, no later
\* sub-agent and no later pass is started, whatever the ceiling; with two
\* sub-agents of which the second escalates on its first Event the loop ends
\* after exactly one pass.
C10_EscalateStops ==
    /\ \A i \in DOMAIN lout : lout[i].metadata.escalate => i = Len(lout)
    /\ lout # <<>> /\ Last(lout).metadata.escalate =>
         /\ lpc \in {"while", "done"}
         /\ should_exit
         /\ Last(lstarts) = RunOf(Last(lout))
    /\ lpc = "done" /\ lcfg.sub_agents = 2 /\ SecondAlwaysEscalates =>
         /\ loop_idx = 1
         /\ Range(lstarts) = { <<0, 1>>, <<0, 2>> }

\* two sub-agents under a ceiling of 2: the first yielded an Event, the second
\* escalated on its first, and the loop is over after one pass
C10_Witness ==
    /\ lpc = "done"
    /\ lcfg.sub_agents = 2
    /\ ~lcfg.max_iterations.none /\ lcfg.max_iterations.n = 2
    /\ Len(lout) = 2
    /\ lout[1].author = SubAgentName(1)
    /\ lout[2].author = SubAgentName(2) /\ lout[2].metadata.escalate
    /\ loop_idx = 1

\* -------------------------------------------------------- the SequentialAgent

\* the indexes stamped on the Events yielded so far
SeqIndexes == [k \in DOMAIN qout |-> qout[k].metadata.sequential_index]

RECURSIVE Squeeze(_)
\* a sequence without its repetitions of the element before
Squeeze(s) ==
    IF Len(s) <= 1 THEN s
    ELSE IF s[1] = s[2] THEN Squeeze(Tail(s))
         ELSE <<s[1]>> \o Squeeze(Tail(s))

\* C11: a SequentialAgent runs its sub-agents one after another in list
\* order, each to completion and each exactly once; every Event it yields
\* carries the orchestrator's name and the index of the sub-agent being run,
\* so the indexes the caller sees never decrease and, for three sub-agents
\* that each yield, are 0, 1, 2 in that order.
C11_SequentialOrder ==
    /\ qstarts = [k \in 1..Len(qstarts) |-> k]
    /\ IsPrefix(qends, qstarts)
    /\ Len(qstarts) - Len(qends) = (IF qpc = "sub" THEN 1 ELSE 0)
    /\ qpc = "done" => Len(qends) = qcfg.sub_agents
    /\ \A k \in DOMAIN qout :
         /\ qout[k].metadata.sequential_agent = "pipeline"
         /\ qout[k].author = SubAgentName(qout[k].metadata.sequential_index + 1)
    /\ \A k \in 1..(Len(qout) - 1) : SeqIndexes[k] <= SeqIndexes[k + 1]
    /\ qpc = "done" /\ qcfg.sub_agents = 3
         /\ (\A a \in 1..3 : \E k \in DOMAIN qout : qout[k].author = SubAgentName(a))
         => Squeeze(SeqIndexes) = <<0, 1, 2>>

\* three sub-agents have run, the second yielded two Events and the others one
C11_Witness ==
    /\ qpc = "done"
    /\ qcfg.sub_agents = 3
    /\ SeqIndexes = <<0, 1, 1, 2>>


\* ------------------------------------------------------------------ agent trees

\* the agents the description names for an LLM agent: its direct children, its
\* parent when transfer to the parent is not suppressed and the parent is an
\* LLM agent, every other child of its parent when transfer to peers is not
\* suppressed and the parent is an LLM agent
DescribedTransferable(a) ==
    LET me == agents[a]
        llmParent == me.parent_agent # NoAgent /\ agents[me.parent_agent].kind = "LlmAgent"
    IN  Range(me.sub_agents)
        \cup (IF ~me.disallow_transfer_to_parent /\ llmParent
              THEN {me.parent_agent} ELSE {})
        \cup (IF ~me.disallow_transfer_to_peers /\ llmParent
              THEN Range(agents[me.parent_agent].sub_agents) \ {a} ELSE {})

\* C12: whenever an LLM agent is asked for its transferable agents, the answer
\* holds exactly its direct children, plus its parent iff transfer to the
\* parent is not suppressed and the parent is LLM-backed, plus every other
\* child of its parent iff transfer to peers is not suppressed and the parent
\* is LLM-backed; a Sequential or Loop parent and the peers under it are never
\* in it. This is asked of both get_transferable_agents the repository holds.
C12_TransferableAgents ==
    [][tasked' # tasked =>
          /\ Range(tasked'.result) = DescribedTransferable(tasked'.agent)
          /\ Range(Agent_get_transferable_agents(agents, tasked'.agent))
                 = DescribedTransferable(tasked'.agent)]_vars

\* C12, the agents package alone
C12_PackageOnly ==
    [][tasked' # tasked =>
          Range(tasked'.result) = DescribedTransferable(tasked'.agent)]_vars

\* C12, the agents package alone and no two children of one parent of one name
C12_DistinctNames ==
    [][tasked' # tasked
          /\ (\A p \in DOMAIN agents : \A i, j \in DOMAIN agents[p].sub_agents :
                 agents[agents[p].sub_agents[i]].name = agents[agents[p].sub_agents[j]].name
                    => agents[p].sub_agents[i] = agents[p].sub_agents[j])
          => Range(tasked'.result) = DescribedTransferable(tasked'.agent)]_vars

\* the agents whose sub-agent list contains a
ParentsOf(a) == {p \in Constructed : a \in Range(agents[p].sub_agents)}

\* the construction that has just been made listed an agent with a parent
ListedAParentedAgent ==
    \E k \in DOMAIN Last(agents').sub_agents :
        agents[Last(agents').sub_agents[k]].parent_agent # NoAgent

\* C13: after any sequence of constructions every agent has at most one parent,
\* an agent's parent is exactly the agent whose sub-agent list contains it (and
\* it has none when no agent lists it), a construction that lists an agent that
\* already has a parent fails, and an agent and the agents of its sub-agent
\* list reach the same root
C13_OneParent ==
    [][Len(agents') > Len(agents) =>
          /\ ListedAParentedAgent => ~Last(agents').constructed
          /\ \A a \in Constructed' :
                /\ Cardinality(ParentsOf(a)') <= 1
                /\ ParentsOf(a)' = {agents'[a].parent_agent} \ {NoAgent}
                /\ \A k \in DOMAIN agents'[a].sub_agents :
                      root_agent(agents', agents'[a].sub_agents[k]) = root_agent(agents', a)]_vars

\* C13 for the constructions that succeed
C13_AmongSuccesses ==
    [][Len(agents') > Len(agents) /\ (\A a \in DOMAIN agents' : agents'[a].constructed) =>
          /\ \A a \in Constructed' :
                /\ Cardinality(ParentsOf(a)') <= 1
                /\ ParentsOf(a)' = {agents'[a].parent_agent} \ {NoAgent}
                /\ \A k \in DOMAIN agents'[a].sub_agents :
                      root_agent(agents', agents'[a].sub_agents[k]) = root_agent(agents', a)]_vars

\* C13, the failure alone
C13_SecondParentFails ==
    [][Len(agents') > Len(agents) /\ ListedAParentedAgent => ~Last(agents').constructed]_vars


\* ------------------------------------------------------------ OpenAILlm.generate

\* C14: a call with stream = false yields exactly one response, with partial =
\* false; a call with stream = true yields zero or more partial = true
\* fragments and then exactly one partial = false response, the last item
\* yielded, also when the remote call fails before or in the middle of the stream
C14_OneFinalResponse ==
    /\ \A k \in DOMAIN gout : ~gout[k].partial => k = Len(gout) /\ gpc = "done"
    /\ gpc = "done" => gout # <<>> /\ ~Last(gout).partial
    /\ ~gcfg.stream => \A k \in DOMAIN gout : ~gout[k].partial

C14_Witness ==
    /\ gpc = "done" /\ gcfg.stream /\ gpos > 0 /\ gpos < Len(gcfg.text)
    /\ Len(gout) = 2 /\ gout[1].partial /\ gout[2].error # None

RECURSIVE OutsideSpans(_), InsideSpan(_)
OutsideSpans(s) ==
    LET i == find(s, OpenTag)
    IN  IF i = -1 THEN [visible |-> s, thinking |-> <<>>]
        ELSE [visible |-> Take(s, i) \o InsideSpan(Drop(s, i + 7)).visible,
              thinking |-> InsideSpan(Drop(s, i + 7)).thinking]

InsideSpan(s) ==
    LET j == find(s, CloseTag)
    IN  IF j = -1 THEN [visible |-> <<>>, thinking |-> s]
        ELSE [visible |-> OutsideSpans(Drop(s, j + 8)).visible,
              thinking |-> Take(s, j) \o OutsideSpans(Drop(s, j + 8)).thinking]

StreamEnded == gpc = "done" /\ gcfg.stream /\ Last(gout).error = None

\* C16: for every text and every way of cutting it into chunks, what the
\* filter has emitted is at every moment the beginning of the text's
\* characters outside the spans, and what it has collected the beginning of
\* the characters inside them; when the stream has ended the filter has
\* emitted exactly the characters outside the spans, in order, and collected
\* exactly the characters inside them, which finalize returns stripped
C16_FilterSplits ==
    /\ IsPrefix(gvisible, OutsideSpans(gcfg.text).visible)
    /\ IsPrefix(gfilter.thinking_content, OutsideSpans(gcfg.text).thinking)
    /\ StreamEnded =>
          /\ gvisible = OutsideSpans(gcfg.text).visible
          /\ gfilter.thinking_content = OutsideSpans(gcfg.text).thinking
          /\ gfilter.buffer = <<>>
          /\ Last(gout).thinking = strip(OutsideSpans(gcfg.text).thinking)
          /\ ~gcfg.show_thinking =>
                (IF gout[1].partial THEN gout[1].delta ELSE <<>>) = gvisible

C16_Witness ==
    /\ StreamEnded /\ ~gcfg.show_thinking
    /\ gcfg.text = Flatten(<<<<"a">>, OpenTag, <<"s", "e", "c", "r", "e", "t">>, CloseTag, <<"b">>>>)
    /\ gvisible = <<"a", "b">>
    /\ Last(gout).thinking = <<"s", "e", "c", "r", "e", "t">>

\* the fragments of a stream, joined
JoinedDeltas == IF gout # <<>> /\ gout[1].partial THEN gout[1].delta ELSE <<>>

\* C17: for the same text the streamed and the non-streamed path agree: the
\* streamed fragments joined in order equal the content of the final response,
\* and the final streamed response has the content and the thinking text of
\* the non-streamed response
C17_PathsAgree ==
    StreamEnded =>
        /\ JoinedDeltas = Last(gout).content
        /\ Last(gout).content = extract_thinking(gcfg.text).clean_content
        /\ Last(gout).thinking = extract_thinking(gcfg.text).thinking_content

\* C17 for the texts the two paths do agree on: thinking hidden, no whitespace
\* at either end of the visible text, every <think> closed, one span at most
C17_OnPlainTexts ==
    StreamEnded /\ ~gcfg.show_thinking
        /\ OutsideSpans(gcfg.text).visible = strip(OutsideSpans(gcfg.text).visible)
        /\ OutsideSpans(gcfg.text).visible = think_pattern(gcfg.text).rest
        /\ Len(think_pattern(gcfg.text).parts) <= 1
    =>  /\ JoinedDeltas = Last(gout).content
        /\ Last(gout).content = extract_thinking(gcfg.text).clean_content
        /\ Last(gout).thinking = extract_thinking(gcfg.text).thinking_content


\* -------------------------------------------------------------- InMemoryService

\* every entry the store holds
Stored == UNION {Range(memories[k]) : k \in DOMAIN memories}

\* C18: under any interleaving of add, search, get and clear calls of several
\* threads no call raises, no added entry is lost (an add leaves its entry
\* stored, and only a clear takes a stored entry away), and a search returns
\* only entries that were stored under its (app_name, user_id) at some moment
\* during the call
C18_ThreadSafe ==
    [][/\ spc' # "raised"
       /\ spc' = "done" => Range(sresult'.entries) \subseteq sseen'
       /\ \A entry \in EntryPool : add(entry) => entry \in Stored'
       /\ (\A e \in Stored : e \in Stored') \/ (\E call \in ClearCalls : clear(call))]_vars

\* C18 but for the raise
C18_NothingLost ==
    [][/\ \A entry \in EntryPool : add(entry) => entry \in Stored'
       /\ (\A e \in Stored : e \in Stored') \/ (\E call \in ClearCalls : clear(call))]_vars

\* C19: whatever characters the names contain, an entry added under one
\* (app_name, user_id) is never returned by a search under another pair and
\* never deleted or counted by a clear under another pair
C19_Isolation ==
    [][/\ spc' = "done" =>
             \A k \in DOMAIN sresult'.entries :
                 /\ sresult'.entries[k].app_name = scall'.app_name
                 /\ sresult'.entries[k].user_id = scall'.user_id
       /\ \A call \in ClearCalls : clear(call) =>
             /\ \A e \in Stored \ Stored' :
                    e.app_name = call.app_name /\ e.user_id = call.user_id
             /\ mlast'.deleted <= Cardinality({e \in Stored : /\ e.app_name = call.app_name
                                                              /\ e.user_id = call.user_id})]_vars

\* C19 between pairs of different user_key
C19_PerKey ==
    [][/\ spc' = "done" =>
             \A k \in DOMAIN sresult'.entries :
                 user_key(sresult'.entries[k].app_name, sresult'.entries[k].user_id)
                     = user_key(scall'.app_name, scall'.user_id)
       /\ \A call \in ClearCalls : clear(call) =>
             /\ \A e \in Stored \ Stored' :
                    user_key(e.app_name, e.user_id) = user_key(call.app_name, call.user_id)
             /\ mlast'.deleted = Cardinality(Stored \ Stored')]_vars

\* the number of query tokens found in the entry
Score(e) == Cardinality(extract_words(scall.query) \cap extract_words(e.content))

\* of the entries given, those a search has to return before the cut: they pass
\* the session and type filters, share a token with the query and score at
\* least score_threshold
Matching(entries) ==
    {e \in entries :
        /\ scall.session_id # None => e.session_id = scall.session_id
        /\ scall.memory_type # None => e.memory_type = scall.memory_type
        /\ Score(e) > 0
        /\ Score(e) * scall.score_threshold.den
              >= scall.score_threshold.num * Cardinality(extract_words(scall.query))}

\* a ranks strictly before b: by score descending, then timestamp descending
RanksBefore(a, b) ==
    \/ Score(a) > Score(b)
    \/ Score(a) = Score(b) /\ a.timestamp > b.timestamp

\* the result is the matching entries in rank order, cut to limit
IsRankedCut(M) ==
    /\ sresult.total_count = Cardinality(M)
    /\ Len(sresult.entries) = IF scall.limit < Cardinality(M) THEN scall.limit
                              ELSE Cardinality(M)
    /\ Range(sresult.entries) \subseteq M
    /\ \A i, j \in DOMAIN sresult.entries :
          i < j => /\ sresult.entries[i] # sresult.entries[j]
                   /\ ~RanksBefore(sresult.entries[j], sresult.entries[i])
    /\ \A e \in M \ Range(sresult.entries), r \in Range(sresult.entries) : ~RanksBefore(e, r)

\* C20: a search that ran undisturbed returns exactly the entries of its
\* (app_name, user_id) that pass the session and type filters, share at least
\* one token with the query and score at least score_threshold, the score
\* being the query tokens found in the entry over the query tokens; ordered by
\* score descending, then timestamp descending, cut to limit, total_count
\* counting the matches before the cut
C20_KeywordSearch ==
    spc = "done" /\ squiet => IsRankedCut(Matching(OfSearchedUser(memories)))

\* C20 over the entries stored under the search's user_key
C20_PerKey ==
    spc = "done" /\ squiet =>
        IsRankedCut(Matching(Range(StoredUnder(user_key(scall.app_name, scall.user_id)))))

\* the two entries of the example are stored and nothing else is
ExampleStored ==
    /\ spc = "done" /\ squiet
    /\ Stored = KeywordEntries

\* C21: with the entries "用户喜欢Python编程" and "用户正在学习机器学习" stored, the
\* query "Python 机器学习" with score_threshold 0.5 returns both entries, each
\* with score 0.5, the more recent one first, and the query "Python" returns
\* only the first entry, with score 1.0
C21_KeywordExample ==
    /\ ExampleStored /\ scall.query = TextPythonML =>
          /\ Len(sresult.entries) = 2
          /\ sresult.entries[1].content = TextLearnsML
          /\ sresult.entries[2].content = TextLikesPython
          /\ \A k \in 1..2 : 2 * Score(sresult.entries[k]) = Cardinality(extract_words(scall.query))
    /\ ExampleStored /\ scall.query = TextPython =>
          /\ Len(sresult.entries) = 1
          /\ sresult.entries[1].content = TextLikesPython
          /\ Score(sresult.entries[1]) = Cardinality(extract_words(scall.query))

\* C21, the query "Python" alone
C21_SingleWord ==
    ExampleStored /\ scall.query = TextPython =>
        /\ Len(sresult.entries) = 1
        /\ sresult.entries[1].content = TextLikesPython
        /\ Score(sresult.entries[1]) = Cardinality(extract_words(scall.query))

\* what the query "Python 机器学习" does return: the first entry alone
C21_TwoWordsFindOne ==
    ExampleStored /\ scall.query = TextPythonML =>
        /\ Len(sresult.entries) = 1
        /\ sresult.entries[1].content = TextLikesPython
        /\ extract_words(TextLearnsML) = {TextLearnsML}


\* ------------------------------------------------------------ the memory manager

\* C22: MemoryManager.search never returns the same entry id twice (also when
\* the short-term and long-term tiers are one service instance), its entries are
\* ordered by timestamp, most recent first, and they are at most limit
C22_ManagerSearch ==
    mgr_call.op = "search" =>
        LET entries == mgr_result.entries
        IN  /\ \A i, j \in DOMAIN entries : entries[i].id = entries[j].id => i = j
            /\ \A i, j \in DOMAIN entries : i < j => entries[i].timestamp >= entries[j].timestamp
            /\ Len(entries) <= mgr_call.limit

\* a search over two services that both hold a matching entry returned it, and
\* a more recent one before it
C22_Witness ==
    /\ mgr_call.op = "search" /\ ~same_service
    /\ \E e \in ManagerEntries :
          /\ e \in Range(short_result(mgr_call)) /\ e \in Range(long_result(mgr_call))
          /\ Len(mgr_result.entries) = 2
          /\ mgr_result.entries[2] = e

\* C22, one service under both names: the search returned two entries
C22_SameService ==
    ~(mgr_call.op = "search" /\ same_service /\ Len(mgr_result.entries) = 2)


\* --------------------------------------------------------------- the memory tools

\* C23: no request the flow builds declares a preprocessing-only tool
\* (preload_memory) to the model, and a function call that names it is never
\* executed through the tool dispatch
C23_PreprocessingOnly ==
    /\ \A k \in DOMAIN request_tools : ~is_preprocessing(request_tools[k])
    /\ mt_call.op = "dispatch" /\ is_preprocessing(mt_call.name) => ~mt_call.executed

\* C23, the declarations alone
C23_NotDeclared ==
    \A k \in DOMAIN request_tools : ~is_preprocessing(request_tools[k])

\* C23, the dispatch alone
C23_NotDispatched ==
    mt_call.op = "dispatch" /\ is_preprocessing(mt_call.name) => ~mt_call.executed

\* a call of a memory tool
MemoryToolCalled ==
    /\ mt_call'.op \in {"dispatch", "process_llm_request", "run_async"}
    /\ mt_call'.name \in {"load_memory", "preload_memory"}
    /\ mt_call'.executed

\* C24: without a memory-tool context the memory tools do not raise:
\* LoadMemoryTool returns a structured error, PreloadMemoryTool returns no text,
\* and neither changes the memory store
C24_DegradeWithoutContext ==
    [][MemoryToolCalled /\ ~mt_call'.context.given =>
          /\ mt_call'.result.kind # "raised"
          /\ mt_call'.op = "run_async" => mt_call'.result.kind = "error"
          /\ mt_call'.op = "process_llm_request" => mt_call'.result.kind = "none"
          /\ mt_store' = mt_store]_vars

\* C24 for LoadMemoryTool, called directly or by the flow, and for the store
C24_LoadDegrades ==
    [][MemoryToolCalled /\ ~mt_call'.context.given /\ mt_call'.name = "load_memory" =>
          /\ mt_call'.result.kind = "error"
          /\ mt_store' = mt_store]_vars

\* C24 for a context that has no memory service or no user query: the preload
\* returns no text
C24_PreloadWithoutService ==
    [][MemoryToolCalled /\ mt_call'.op = "process_llm_request" /\ mt_call'.context.given
          /\ (~mt_call'.context.has_service \/ mt_call'.context.user_query = <<>>) =>
              /\ mt_call'.result.kind = "none"
              /\ mt_store' = mt_store]_vars


\* -------------------------------------------------------------- /api/chat/stream

\* the lines of a response are one line per Event, in order, and then tail
LinesAre(tail) ==
    sse_lines = [k \in 1..Len(sse_events) |-> EventLine(sse_events[k])] \o tail

\* C25: every /api/chat/stream response carries one data line per Event, in
\* production order, and ends with exactly one data: [DONE] line after which
\* nothing is sent; an error raised during the turn is a data line with an
\* error field
C25_StreamEndsWithDone ==
    sse_pc = "closed" =>
        /\ sse_lines # <<>> /\ Last(sse_lines) = DoneLine
        /\ Cardinality({k \in DOMAIN sse_lines : sse_lines[k] = DoneLine}) = 1
        /\ LinesAre(IF sse_raised THEN <<ErrorLine, DoneLine>> ELSE <<DoneLine>>)

\* C25, a turn without error: the Events' lines and one final [DONE]
C25_WithoutError ==
    sse_pc = "closed" /\ ~sse_raised => LinesAre(<<DoneLine>>)

\* C25, a turn with an error: the Events' lines and then the error line, with
\* which the response ends
C25_ErrorEndsStream ==
    sse_pc = "closed" /\ sse_raised => LinesAre(<<ErrorLine>>)


\* ------------------------------------------------------------- tool-call markup

\* the pieces of a kind in the reply
PiecesOf(piece) == {k \in DOMAIN mx_reply.pieces : mx_reply.pieces[k] = piece}

\* the function calls returned with a name and arguments
CallsOf(name, args) ==
    {k \in DOMAIN mx_response.function_calls :
        /\ mx_response.function_calls[k].name = name
        /\ mx_response.function_calls[k].args = args}

\* a reply without standard tool call whose markup is <invoke name=...> blocks,
\* bare or wrapped, has been parsed
NamedBlocksParsed ==
    /\ mx_pc = "parsed"
    /\ mx_reply.tool_calls = <<>>
    /\ PiecesOf(PieceNested) = {}
    /\ PiecesOf(PieceInvoke) \cup PiecesOf(PieceWrapped) # {}

\* one function call per block, with the block's name and arguments, and the
\* ids call_minimax_0, call_minimax_1, ...; no markup is left in the content
OneCallPerBlock ==
    /\ Len(mx_response.function_calls)
          = Cardinality(PiecesOf(PieceInvoke)) + Cardinality(PiecesOf(PieceWrapped))
    /\ Cardinality(CallsOf("get_weather", [p \in {"city"} |-> <<Chars("Beijing")>>]))
          = Cardinality(PiecesOf(PieceInvoke))
    /\ Cardinality(CallsOf("web_search", [p \in {"q"} |-> <<Chars("cats")>>]))
          = Cardinality(PiecesOf(PieceWrapped))
    /\ \A k \in DOMAIN mx_response.function_calls :
          mx_response.function_calls[k].id = [prefix |-> "call_minimax_", index |-> k - 1]
    /\ \A i \in DOMAIN mx_response.content : mx_response.content[i].kind = "chars"

\* a reply with a standard tool call: the markup is not parsed
StandardCallsOnly ==
    mx_pc = "parsed" /\ mx_reply.tool_calls # <<>> =>
        /\ mx_response.function_calls = mx_reply.tool_calls
        /\ mx_response.content = strip_tokens(Flatten(mx_reply.pieces))

\* C26: a reply without standard tool call whose content holds <invoke name=X>
\* blocks with <parameter name=P>V</parameter> children, bare or inside
\* <minimax:tool_call>, gives one function call per block, with name X, arguments
\* P -> V and id call_minimax_{index}, and the markup is removed from the
\* content; with a standard tool call the markup is not parsed
C26_MarkupParsed ==
    /\ NamedBlocksParsed => OneCallPerBlock
    /\ StandardCallsOnly

\* C26 for replies whose blocks are all inside <minimax:tool_call>
C26_Wrapped ==
    NamedBlocksParsed /\ PiecesOf(PieceInvoke) = {} => OneCallPerBlock

\* C26, the standard tool call
C26_StandardWins == StandardCallsOnly

\* what a bare <invoke name=X> block gives: its markup is removed and no
\* function call is made of it
C26_BareBlocksLost ==
    NamedBlocksParsed =>
        /\ Len(mx_response.function_calls) = Cardinality(PiecesOf(PieceWrapped))
        /\ \A i \in DOMAIN mx_response.content : mx_response.content[i].kind = "chars"


\* ------------------------------------------------------ the conversation history

\* the positions in the log of the Events a message of the history is built from
SourcesOf(message) ==
    {k \in DOMAIN hlog :
        \/ /\ hlog[k].event_type \in {"user_message", "model_response"}
           /\ message.content = hlog[k].content.text
        \/ /\ hlog[k].event_type = "tool_response"
           /\ message.role = "tool" /\ message.content = hlog[k].content.result
        \/ /\ hlog[k].event_type = "tool_call"
           /\ HasToolCalls(message)
           /\ \E c \in DOMAIN message.tool_calls : message.tool_calls[c].id = hlog[k].content.id}

\* the messages of a role that hold the text of the Event at position k
MessagesOf(role, k) ==
    {i \in DOMAIN get_conversation_history(hlog) :
        /\ get_conversation_history(hlog)[i].role = role
        /\ get_conversation_history(hlog)[i].content = hlog[k].content.text}

\* one user message per user-message Event and one assistant message per
\* non-empty model-response Event
OneMessagePerEvent ==
    \A k \in DOMAIN hlog :
        /\ hlog[k].event_type = "user_message" => Cardinality(MessagesOf("user", k)) = 1
        /\ hlog[k].event_type = "model_response" /\ hlog[k].content.text # "" =>
              Cardinality(MessagesOf("assistant", k)) = 1

\* C27: for any event log the conversation history keeps the relative order of
\* the Events it is built from (a message of a later Event never precedes a
\* message of an earlier Event), with one user message per user-message Event
\* and one assistant message per non-empty model-response Event
C27_OrderKept ==
    /\ \A i, j \in DOMAIN get_conversation_history(hlog) :
          i < j => \A a \in SourcesOf(get_conversation_history(hlog)[i]),
                      b \in SourcesOf(get_conversation_history(hlog)[j]) : a < b
    /\ OneMessagePerEvent

\* C27 without the messages that carry tool calls: user, assistant-text and
\* tool messages stand in the order of their Events, one per Event
C27_TextOrderKept ==
    /\ \A i, j \in DOMAIN get_conversation_history(hlog) :
          /\ i < j
          /\ ~HasToolCalls(get_conversation_history(hlog)[i])
          /\ ~HasToolCalls(get_conversation_history(hlog)[j])
          => \A a \in SourcesOf(get_conversation_history(hlog)[i]),
                b \in SourcesOf(get_conversation_history(hlog)[j]) : a < b
    /\ OneMessagePerEvent

\* C27 for logs in which no user message and no model text comes while a tool
\* call waits for its tool response
C27_OrderKeptWhenAnswered ==
    (\A n \in DOMAIN hlog :
        (hlog[n].event_type = "user_message"
           \/ (hlog[n].event_type = "model_response" /\ hlog[n].content.text # ""))
        => \A k \in 1..(n - 1) : hlog[k].event_type = "tool_call" =>
              \E m \in (k + 1)..(n - 1) : hlog[m].event_type = "tool_response")
    => \A i, j \in DOMAIN get_conversation_history(hlog) :
          i < j => \A a \in SourcesOf(get_conversation_history(hlog)[i]),
                      b \in SourcesOf(get_conversation_history(hlog)[j]) : a < b

\* ------------------------------------------------------ the outcome of a tool call

\* event is an outcome of the function call of the TOOL_CALL Event call
IsOutcomeOf(event, call) ==
    \/ event.event_type = "agent_transfer"
    \/ event.event_type = "tool_response" /\ event.content.call_id = call.content.id
    \/ IsToolError(event) /\ event.content.tool = call.content.name

IsOutcome(event) ==
    event.event_type \in {"agent_transfer", "tool_response"} \/ IsToolError(event)

\* the TOOL_CALL Event at position i is followed by exactly one outcome Event,
\* unless its tool is still to run
OutcomeFollows(i) ==
    /\ i = Len(fout) => fpc = "execute"
    /\ i < Len(fout) => IsOutcomeOf(fout[i + 1], fout[i])
    /\ i + 1 < Len(fout) => ~IsOutcome(fout[i + 2])

\* C28: for every function call of a final model response, whatever tool name
\* it carries, the flow yields a tool-call Event followed by exactly one outcome
\* Event for that call (agent-transfer, tool-response or error) before the
\* tool-call Event of the next function call and before the next model call
C28_OneOutcomePerCall ==
    \A i \in Positions(fout, IsToolCall) : OutcomeFollows(i)

\* C28 for the function calls that name a tool of the agent
C28_KnownTools ==
    \A i \in Positions(fout, IsToolCall) :
        flow_find_tool(fout[i].content.name) # None => OutcomeFollows(i)

\* C28, the Events of a response's function calls: as many tool-call Events as
\* function calls once the tools are through
C28_EveryCallYielded ==
    fpc \in {"loop", "done"} /\ fmodelCalls > 0 /\ fresponse # NoFlowResponse =>
        LET last == CHOOSE i \in Positions(fout, IsModelResponse) :
                        \A j \in Positions(fout, IsModelResponse) : j <= i
        IN  Cardinality({i \in Positions(fout, IsToolCall) : i > last})
                = Len(fresponse.function_calls)

\* --------------------------------------------------------- fragments and the log

\* C29: after any sequence of streamed and non-streamed turns the session's
\* event log holds no partial Event and no model-response-delta Event, and no
\* such Event contributes a message to the conversation history used for the
\* next model call
C29_NoFragmentPersisted ==
    /\ \A i \in DOMAIN log :
          ~log[i].partial /\ log[i].event_type # "model_response_delta"
    /\ \A i \in DOMAIN messages : messages[i].content # DeltaEvent.content.text
    /\ Len(get_conversation_history(log))
          <= Cardinality({i \in DOMAIN log : log[i].event_type # "model_response_delta"})

\* the second turn on a session, a streamed one, has handed a fragment to the
\* caller and has ended
C29_Witness ==
    /\ rpc = "done" /\ rcfg.stream
    /\ Cardinality({i \in DOMAIN log : log[i].event_type = "user_message"}) = 2
    /\ \E i \in DOMAIN out : out[i].event_type = "model_response_delta"
    /\ messages # <<>>


\* ------------------------------------------------- who writes to the session

\* C30: while SimpleFlow runs a turn, in any of its synchronous, asynchronous,
\* streamed or non-streamed modes, the session's event log changes only through
\* appends made by the flow's caller
C30_OnlyCallerWrites ==
    [][sf_events' # sf_events => sf_writer' = "caller"]_vars

\* in the streamed modes the flow yields its Events and the log changes only
\* through the caller's appends
C30_StreamedOnlyCallerWrites ==
    [][(Streamed(sf_mode) /\ sf_events' # sf_events) => sf_writer' = "caller"]_vars

\* in the non-streamed modes nothing is yielded: every Event after the user's
\* message was appended by the flow
C30_NonStreamedFlowWrites ==
    (sf_mode \in {"run", "run_async"}) =>
        /\ sf_yielded = <<>>
        /\ (Len(sf_events) > 1 => sf_writer = "flow")

\* a non-streamed turn has ended with a recorded tool call and its response
SimpleFlowRecorded ==
    /\ sf_mode \in {"run", "run_async"}
    /\ sf_pc = "done"
    /\ \E i \in DOMAIN sf_events : sf_events[i].event_type = "tool_response"

\* ------------------------------------------------------------- names in a tree

\* the agents of the tree of root r: r and the descendants find_agent walks
RECURSIVE TreeOf(_, _)
TreeOf(ags, r) ==
    {r} \cup UNION {TreeOf(ags, ags[r].sub_agents[k]) : k \in DOMAIN ags[r].sub_agents}

\* the roots of the trees built: constructed agents without a parent
Roots == {r \in Constructed : agents[r].parent_agent = NoAgent}

\* C37: within one agent tree each name belongs to at most one agent, so
\* looking an agent up by name from the root can only ever reach one agent
\* with that name
C37_UniqueNames ==
    \A r \in Roots : \A a, b \in TreeOf(agents, r) :
        /\ agents[a].name = agents[b].name => a = b
        /\ find_agent(agents, r, agents[a].name) = a

\* what the lookup does give: the root if it has the name, else an agent of
\* the tree with that name, none only when no agent of the tree has it
C37_FindsOneOfTheName ==
    \A r \in Roots : \A name \in AgentNames :
        LET found == find_agent(agents, r, name)
            named == {a \in TreeOf(agents, r) : agents[a].name = name}
        IN  /\ (found = NoAgent) = (named = {})
            /\ found # NoAgent => found \in named
            /\ agents[r].name = name => found = r

\* a tree of two agents that share a name
TwoOfOneName ==
    \E r \in Roots : \E a, b \in TreeOf(agents, r) :
        a # b /\ agents[a].name = agents[b].name

\* ------------------------------------------------------- the LoopAgent's ceiling

\* no Event yielded so far carries the escalate signal
NoEscalateYet == \A i \in DOMAIN lout : ~lout[i].metadata.escalate

\* the sub-agent runs of n full passes over the list
FullPasses(n) == {<<p, k>> : p \in 0..(n - 1), k \in 1..lcfg.sub_agents}

\* C36: for every ceiling N a LoopAgent can be configured with (every
\* non-negative integer N), when no Event carries an escalate signal the
\* LoopAgent runs its full sub-agent list exactly N times and then stops; it
\* never starts more than N passes
C36_ExactlyNPasses ==
    (~lcfg.max_iterations.none /\ NoEscalateYet) =>
        /\ Range(lstarts) \subseteq FullPasses(lcfg.max_iterations.n)
        /\ (lpc = "done" /\ lcfg.sub_agents > 0) =>
              /\ loop_idx = lcfg.max_iterations.n
              /\ Range(lstarts) = FullPasses(lcfg.max_iterations.n)

\* the same for the ceilings N >= 1
C36_PositiveCeilings ==
    (Truthy(lcfg.max_iterations) /\ NoEscalateYet) =>
        /\ Range(lstarts) \subseteq FullPasses(lcfg.max_iterations.n)
        /\ (lpc = "done" /\ lcfg.sub_agents > 0) =>
              /\ loop_idx = lcfg.max_iterations.n
              /\ Range(lstarts) = FullPasses(lcfg.max_iterations.n)

\* a ceiling of 0 is no ceiling: the loop ends only on an escalate signal
C36_ZeroIsUnbounded ==
    (~lcfg.max_iterations.none /\ lcfg.max_iterations.n = 0 /\ lcfg.sub_agents > 0
        /\ NoEscalateYet) => lpc # "done"

\* a LoopAgent with the ceiling 0 has started a sub-agent
ZeroCeilingPass ==
    /\ ~lcfg.max_iterations.none /\ lcfg.max_iterations.n = 0
    /\ lstarts # <<>>


\* ------------------------------------------------------------ the before-hook

\* C40: when an agent's before-hook returns replacement content, running the
\* agent yields exactly one Event carrying that content and authored by the
\* agent, and the agent makes no model call and runs no sub-agent; when the
\* hook returns nothing the agent executes normally
C40_HookShortCircuits ==
    /\ (hook_cfg.before = "content" /\ hook_pc \in {"done", "raised"}) =>
          /\ hook_pc = "done"
          /\ Len(hook_out) = 1
          /\ hook_out[1].content = "replacement" /\ hook_out[1].author = "agent"
          /\ ~hook_impl
    /\ (hook_cfg.before = "nothing" /\ hook_pc = "done") =>
          /\ hook_impl
          /\ \A i \in DOMAIN hook_out : hook_out[i] \in ImplEvents

\* with replacement content the agent's own logic is never entered and the
\* after callback is not called
C40_ContentSkipsTheAgent ==
    hook_cfg.before = "content" => ~hook_impl /\ hook_after = 0

\* with a hook that returns nothing, as without a hook, the agent executes
\* normally and ends without raising
C40_NothingRunsTheAgent ==
    (hook_cfg.before \in {"absent", "nothing"} /\ hook_pc \notin {"idle", "before"}) =>
        /\ hook_impl
        /\ hook_pc # "raised"
        /\ \A i \in DOMAIN hook_out : hook_out[i] \in ImplEvents

\* the hook returned content and run_async raised without having yielded
C40_HookRaises ==
    (hook_cfg.before = "content" /\ hook_pc \notin {"idle", "before"}) =>
        hook_pc = "raised" /\ hook_out = <<>>

\* a run with a hook that returned content has ended
HookReturnedContent == hook_cfg.before = "content" /\ hook_pc \in {"done", "raised"}

\* ------------------------------------------------------- the tiers of the manager

\* the entries of the call's application and user in a store
EntriesFor(store, call) ==
    LET key == user_key(call.app_name, call.user_id)
    IN  IF key \in DOMAIN store THEN Range(store[key]) ELSE {}

\* the entry matches the query of the call
MatchesQuery(entry, call) ==
    extract_words(call.query) \cap extract_words(entry.content) # {}

\* the configuration cuts no tier short: both tiers are searched, to the
\* default limits
FullConfig == config = MemoryConfig(TRUE, 20, TRUE, 10, 3, 10)

\* C38: MemoryManager.search called with a session id still returns the
\* matching long-term entries of that application and user, whatever session
\* they were stored under, whether the two tiers are separate services or the
\* same instance
C38_LongTermAcrossSessions ==
    (mgr_call.op = "search" /\ mgr_call.session_id # None /\ FullConfig
        /\ mgr_call.memory_type \in {None, "long_term"}) =>
        \A e \in EntriesFor(long_term, mgr_call) :
            (e.memory_type = "long_term" /\ MatchesQuery(e, mgr_call))
                => e \in Range(mgr_result.entries)

\* C38 with two separate services
C38_SeparateServices ==
    (mgr_call.op = "search" /\ mgr_call.session_id # None /\ FullConfig
        /\ ~same_service /\ mgr_call.memory_type \in {None, "long_term"}) =>
        \A e \in EntriesFor(long_term, mgr_call) :
            (e.memory_type = "long_term" /\ MatchesQuery(e, mgr_call))
                => e \in Range(mgr_result.entries)

\* with one service under both names a search with a session id returns
\* entries of that session only
C38_OneServiceNarrows ==
    (mgr_call.op = "search" /\ mgr_call.session_id # None /\ same_service) =>
        \A k \in DOMAIN mgr_result.entries :
            mgr_result.entries[k].session_id = mgr_call.session_id

\* a search from session s2 while the long-term tier holds a matching
\* long-term entry stored under session s1
SearchFromOtherSession ==
    /\ mgr_call.op = "search" /\ mgr_call.session_id = "s2"
    /\ \E e \in EntriesFor(long_term, mgr_call) :
          e.memory_type = "long_term" /\ e.session_id = "s1" /\ MatchesQuery(e, mgr_call)

\* C39: for every memory type, an entry added through MemoryManager.add can be
\* found again by MemoryManager.search for the same application and user with
\* that memory type and a query matching its content, and is removed by
\* MemoryManager.clear with that memory type, both when the two tiers are
\* separate services and when they are the same instance
C39_AddSearchClear ==
    /\ (mgr_call.op = "search" /\ mgr_call.session_id = None /\ FullConfig
          /\ mgr_call.memory_type # None) =>
          \A e \in EntriesFor(short_term, mgr_call) \cup EntriesFor(long_term, mgr_call) :
              (e.memory_type = mgr_call.memory_type /\ MatchesQuery(e, mgr_call))
                  => e \in Range(mgr_result.entries)
    /\ (mgr_call.op = "clear" /\ mgr_call.memory_type # None) =>
          \A e \in EntriesFor(short_term, mgr_call) \cup EntriesFor(long_term, mgr_call) :
              e.memory_type # mgr_call.memory_type

\* C39 for the types SHORT_TERM and EVENT, and for LONG_TERM with two services
C39_RoutedTypes ==
    LET routed == mgr_call.memory_type \in {"short_term", "event"}
                     \/ (mgr_call.memory_type = "long_term" /\ ~same_service)
    IN  /\ (mgr_call.op = "search" /\ mgr_call.session_id = None /\ FullConfig /\ routed) =>
              \A e \in EntriesFor(short_term, mgr_call) \cup EntriesFor(long_term, mgr_call) :
                  (e.memory_type = mgr_call.memory_type /\ MatchesQuery(e, mgr_call))
                      => e \in Range(mgr_result.entries)
        /\ (mgr_call.op = "clear" /\ routed) =>
              \A e \in EntriesFor(short_term, mgr_call) \cup EntriesFor(long_term, mgr_call) :
                  e.memory_type # mgr_call.memory_type

\* a search or clear by ENTITY, or by LONG_TERM with one service under both
\* names, reaches no service: the search returns nothing and the clear leaves
\* the stores as they were
C39_UnroutedTypes ==
    [][(mgr_call'.op \in {"search", "clear"}
          /\ (mgr_call'.memory_type = "entity"
                \/ (mgr_call'.memory_type = "long_term" /\ same_service))) =>
          /\ mgr_call'.op = "search" => mgr_result'.entries = <<>>
          /\ short_term' = short_term /\ long_term' = long_term]_vars

\* a search by the type of an entry the manager holds
SearchByStoredType ==
    /\ mgr_call.op = "search" /\ mgr_call.session_id = None /\ mgr_call.memory_type # None
    /\ \E e \in EntriesFor(short_term, mgr_call) \cup EntriesFor(long_term, mgr_call) :
          e.memory_type = mgr_call.memory_type

\* ------------------------------------------------------- hand-offs in a turn

\* the agent of the tree that has the name, none when no agent has it (the
\* names of the trees explored are distinct)
AgentNamed(name) ==
    IF \E a \in DOMAIN turn_cfg.tree : turn_cfg.tree[a].name = name
    THEN CHOOSE a \in DOMAIN turn_cfg.tree : turn_cfg.tree[a].name = name
    ELSE NoAgent

\* a generator that waits for the agent run in its place stays as it is
\* until it returns
Abandoned(i) == i \notin DOMAIN frames' \/ frames'[i] = frames[i]

C32_PendingTransfer ==
    [][/\ (Running("LlmAgent", "start") /\ frames' # frames) =>
             IF AgentNamed(pending_name) \notin {NoAgent, Innermost.agent}
             THEN /\ frames' = Append(WithInnermost([Innermost EXCEPT !.pc = "await"]),
                                      Generator(AgentNamed(pending_name)))
                  /\ model_calls' = model_calls /\ called' = called
             ELSE frames' = WithInnermost([Innermost EXCEPT !.pc = "loop"])
       /\ \A i \in DOMAIN frames :
             (frames[i].pc = "await" /\ ~frames[i].transferred) =>
                 ~frames[i].called /\ Abandoned(i)]_vars

\* the root was started on a session whose last transfer names another agent:
\* that agent has run and made a model call, the root has made none
C32_Witness ==
    /\ turn_pc = "running" /\ Len(frames) = 1
    /\ frames[1].agent = 1 /\ frames[1].pc = "await" /\ ~frames[1].transferred
    /\ 1 \notin called /\ called # {}

\* C33: control is only ever handed from an agent to an agent in that agent's
\* transferable set (its children and, where allowed, its parent and peers):
\* a child of a Sequential or Loop orchestrator never hands control to that
\* parent or to its peers, whatever target the model names
C33_OnlyTransferable ==
    \A h \in handoffs : h[2] \in Range(get_transferable_agents(turn_cfg.tree, h[1]))

\* a transfer tool made with a non-empty list of the transferable agents'
\* names lets the flow hand over to those agents only
C33_RestrictedTool ==
    \A h \in handoffs :
        (h[3] = "transfer" /\ available_agents(turn_cfg, h[1]) # {})
            => h[2] \in Range(get_transferable_agents(turn_cfg.tree, h[1]))

\* a child of the SequentialAgent handed control to its peer
OrchestratorBypassed ==
    /\ turn_cfg.tree = SequentialTree
    /\ <<2, 3, "transfer">> \in handoffs

\* the LLM agents of the tree
LlmAgents == {a \in DOMAIN turn_cfg.tree : turn_cfg.tree[a].kind = "LlmAgent"}

\* C34: a turn in a multi-agent tree terminates for every sequence of model
\* replies: the number of agent-to-agent hand-offs and of model calls within
\* one turn is bounded (each agent's flow by max_iterations), so agents cannot
\* transfer control back and forth forever
C34_TurnBounded ==
    model_calls <= Cardinality(LlmAgents) * turn_cfg.max_iterations

\* one flow makes at most max_iterations model calls
C34_FlowBounded ==
    \A i \in DOMAIN frames : frames[i].iteration <= turn_cfg.max_iterations

\* two agents have handed control to each other and the first runs again
BackAndForth ==
    \E a, b \in DOMAIN turn_cfg.tree :
        /\ a # b
        /\ <<a, b, "transfer">> \in handoffs /\ <<b, a, "transfer">> \in handoffs
        /\ \E i, j \in DOMAIN frames : i < j /\ frames[i].agent = a /\ frames[j].agent = a

\* the agents control reached from agent a by the transfers of this turn
ReachedFrom(a) ==
    LET step(S) == S \cup {h[2] : h \in {t \in handoffs : t[1] \in S /\ t[3] = "transfer"}}
    IN  step(step(step({a})))

\* C35: in a SequentialAgent turn, for every index i the Events stamped with
\* index i are produced by the i-th sub-agent (or by agents it transferred
\* control to during this turn) and every LLM sub-agent makes its own model
\* call, whatever Events the session already contained when the turn started
C35_EachSubAgentRuns ==
    turn_cfg.tree = SequentialTree =>
        /\ \A e \in authored :
              e[2] >= 0 /\ e[1] \in ReachedFrom(turn_cfg.tree[1].sub_agents[e[2] + 1])
        /\ turn_pc = "done" => Range(turn_cfg.tree[1].sub_agents) \subseteq called

\* C35 on turns without any hand-off
C35_WithoutHandOffs ==
    (turn_cfg.tree = SequentialTree /\ handoffs = {}) =>
        /\ \A e \in authored : e[2] >= 0 /\ e[1] = turn_cfg.tree[1].sub_agents[e[2] + 1]
        /\ turn_pc = "done" => Range(turn_cfg.tree[1].sub_agents) \subseteq called

\* a SequentialAgent turn is through and a sub-agent has made no model call
SubAgentSkipped ==
    /\ turn_cfg.tree = SequentialTree /\ turn_pc = "done"
    /\ Range(turn_cfg.tree[1].sub_agents) \ called # {}

=============================================================================
